---- MODULE Spec2Model ----
(***************************************************************************)
(* A model of git-wt's worktree naming subsystem: the branch-name          *)
(* sanitizer (internal/naming, Sanitize), the worktree path resolver       *)
(* (internal/naming/path.go), the configuration loader it consults         *)
(* (internal/config/config.go) and the commands that call them; and of     *)
(* worktree selection: the match filter (selectx.FilterByQuery), the two   *)
(* selection strategies (selectx.SelectWithFzf, selectx.SelectWithPrompt)  *)
(* and the commands that select a worktree (internal/cli/go.go).           *)
(*                                                                         *)
(* Strings are sequences of one-character strings, so that every string    *)
(* operation of the source (replace, trim, slice, join, format) is         *)
(* computed character by character.                                        *)
(***************************************************************************)
EXTENDS Integers, Sequences, FiniteSets, TLC

VARIABLES
    sanPc,      \* position of the Sanitize caller: "input", "once", "twice", "off";
                \* in a run of wt new: "new", "rejected", "validated", "named",
                \* "failed", "added"
    sanIn,      \* the branch name handed to Sanitize
    sanOut,     \* Sanitize(sanIn), once computed
    sanAgain,   \* Sanitize(sanOut), once computed
    fs,         \* the filesystem: the set of paths at which an entry exists
    resPc,      \* position of the direct resolver call: "input", "done", "off"
    resIn,      \* its arguments: baseDir, repoName, sanitizedBranch, cfg
    resOut,     \* what GenerateWorktreePathWithConfig returned
    configEnv,  \* the persisted configuration: whether its path can be
                \* determined, whether the file exists and parses, its keys
    inUse,      \* the branches that are checked out in some worktree
    proc,       \* per process running wt commands: its position and locals
    flt,        \* one call of selectx.FilterByQuery: its arguments and result
    sel,        \* one selection (wt go / open / clean, or the selectx package
                \* called directly): its arguments, position, I/O and result
    conf,       \* a configuration file, a Config value and the calls made on it
    cln,        \* one run of wt clean
    pr,         \* one run of wt pr
    tmx         \* one call of tmux Manager.CreateSession

sanVars == <<sanPc, sanIn, sanOut, sanAgain>>
resVars == <<resPc, resIn, resOut>>
cmdVars == <<configEnv, inUse, proc>>
selVars == <<flt, sel>>
extVars == <<conf, cln, pr, tmx>>
baseVars == <<sanPc, sanIn, sanOut, sanAgain, fs, resPc, resIn, resOut,
              configEnv, inUse, proc, flt, sel>>

vars == <<sanPc, sanIn, sanOut, sanAgain, fs, resPc, resIn, resOut,
          configEnv, inUse, proc, flt, sel, conf, cln, pr, tmx>>

\* no call of FilterByQuery, no selection
FltOff == [pc |-> "off", items |-> <<>>, query |-> <<>>,
           result |-> <<>>, err |-> <<>>]
SelOff == [pc |-> "off"]
ConfOff == [pc |-> "off"]
ClnOff == [pc |-> "off"]
PrOff == [pc |-> "off"]
TmxOff == [pc |-> "off"]

\* no configuration call, no wt clean, no wt pr, no CreateSession
ExtOff == conf = ConfOff /\ cln = ClnOff /\ pr = PrOff /\ tmx = TmxOff

(***************************************************************************)
(* Characters and generic string helpers                                   *)
(***************************************************************************)
UpperChars == {"A","B","C","D","E","F","G","H","I","J","K","L","M",
               "N","O","P","Q","R","S","T","U","V","W","X","Y","Z"}
LowerChars == {"a","b","c","d","e","f","g","h","i","j","k","l","m",
               "n","o","p","q","r","s","t","u","v","w","x","y","z"}
DigitChars == {"0","1","2","3","4","5","6","7","8","9"}

\* the character class of invalidCharsRegex, un-negated: A-Z a-z 0-9 . _ -
AllowedChars == UpperChars \cup LowerChars \cup DigitChars \cup {".", "_", "-"}

MinOf(S) == CHOOSE x \in S : \A y \in S : x <= y
MaxOf(S) == CHOOSE x \in S : \A y \in S : x >= y

\* all strings over alphabet A of length at most n
StringsUpTo(A, n) == UNION {[1..k -> A] : k \in 0..n}

\* the string made of k copies of character c
Repeat(c, k) == [i \in 1..k |-> c]

(***************************************************************************)
(* Sanitize (internal/naming)                                              *)
(***************************************************************************)
maxLength == 200

\* strings.ReplaceAll(s, old, new) for one-character old and new
ReplaceAll(s, old, new) == [i \in 1..Len(s) |-> IF s[i] = old THEN new ELSE s[i]]

\* ClassOf with ";" left out of the invalid class (a slip in the character class)
ClassOfLax(re, c) ==
    IF re = "invalidCharsRegex" THEN c \notin (AllowedChars \cup {";"}) ELSE c = "-"

\* does character c belong to the class the regular expression repeats?
\*   invalidCharsRegex = [^A-Za-z0-9._-]+      multiHyphenRegex = -+
ClassOf(re, c) ==
    IF re = "invalidCharsRegex" THEN c \notin AllowedChars ELSE c = "-"

\* end (exclusive) of the greedy match of `class+` that starts at position i
MatchEnd(re, s, i) ==
    LET stop == {j \in i..Len(s) : ~ClassOf(re, s[j])}
    IN  IF stop = {} THEN Len(s) + 1 ELSE MinOf(stop)

\* start of the leftmost match at or after position i (Len(s) + 1 if none)
MatchStart(re, s, i) ==
    LET hit == {j \in i..Len(s) : ClassOf(re, s[j])}
    IN  IF hit = {} THEN Len(s) + 1 ELSE MinOf(hit)

\* re.ReplaceAllString(s, "-") from position i on: the text before the
\* leftmost match is copied, the match (greedy) becomes "-", and scanning
\* resumes after it
RECURSIVE ReplaceAllStringFrom(_, _, _)
ReplaceAllStringFrom(re, s, i) ==
    IF i > Len(s) THEN <<>>
    ELSE LET m == MatchStart(re, s, i)
         IN  IF m > Len(s) THEN SubSeq(s, i, Len(s))
             ELSE SubSeq(s, i, m - 1) \o <<"-">>
                    \o ReplaceAllStringFrom(re, s, MatchEnd(re, s, m))

ReplaceAllString(re, s) == ReplaceAllStringFrom(re, s, 1)

\* strings.TrimRight(s, "-")
TrimRight(s) ==
    LET keep == {i \in 1..Len(s) : s[i] # "-"}
    IN  IF keep = {} THEN <<>> ELSE SubSeq(s, 1, MaxOf(keep))

\* strings.TrimLeft(s, "-")
TrimLeft(s) ==
    LET keep == {i \in 1..Len(s) : s[i] # "-"}
    IN  IF keep = {} THEN <<>> ELSE SubSeq(s, MinOf(keep), Len(s))

\* strings.Trim(s, "-")
Trim(s) == TrimRight(TrimLeft(s))

\* Truncate without the re-trim after the cut
TruncateNoRetrim(s) ==
    IF Len(s) > maxLength THEN SubSeq(s, 1, maxLength) ELSE s

\* the length limit at the end of Sanitize: s[:maxLength], then TrimRight
Truncate(s) ==
    IF Len(s) > maxLength THEN TrimRight(SubSeq(s, 1, maxLength)) ELSE s

\* Sanitize without the hyphen-collapsing step
SanitizeNoCollapse(branchName) ==
    LET s1 == ReplaceAll(branchName, "/", "-")
        s2 == ReplaceAllString("invalidCharsRegex", s1)
    IN  Truncate(Trim(s2))

Sanitize(branchName) ==
    LET s1 == ReplaceAll(branchName, "/", "-")
        s2 == ReplaceAllString("invalidCharsRegex", s1)
        s3 == ReplaceAllString("multiHyphenRegex", s2)
        s4 == Trim(s3)
    IN  Truncate(s4)

(***************************************************************************)
(* Paths (path/filepath) and formatting (fmt)                              *)
(***************************************************************************)
Digits == <<"0","1","2","3","4","5","6","7","8","9">>

\* fmt's %d for a natural number
RECURSIVE Itoa(_)
Itoa(n) == IF n < 10 THEN <<Digits[n + 1]>> ELSE Itoa(n \div 10) \o <<Digits[(n % 10) + 1]>>

\* fmt.Sprintf("%s-%d", a, i)
SprintfNum(a, i) == a \o <<"-">> \o Itoa(i)

\* fmt.Sprintf("%s-%s", a, b)
SprintfStr(a, b) == a \o <<"-">> \o b

\* strings.Join(elems, "/")
RECURSIVE JoinWithSep(_)
JoinWithSep(elems) ==
    IF Len(elems) = 0 THEN <<>>
    ELSE IF Len(elems) = 1 THEN elems[1]
    ELSE elems[1] \o <<"/">> \o JoinWithSep(Tail(elems))

\* the components of a path: the pieces between separators
RECURSIVE SplitFrom(_, _)
SplitFrom(s, i) ==
    LET seps == {j \in i..Len(s) : s[j] = "/"}
    IN  IF seps = {} THEN <<SubSeq(s, i, Len(s))>>
        ELSE <<SubSeq(s, i, MinOf(seps) - 1)>> \o SplitFrom(s, MinOf(seps) + 1)

SplitPath(s) == SplitFrom(s, 1)

\* filepath.Clean's pass over the components: empty and "." components are
\* dropped, ".." removes the component before it (and is dropped at the
\* root, kept at the start of a relative path)
RECURSIVE CleanComponents(_, _, _)
CleanComponents(comps, out, rooted) ==
    IF Len(comps) = 0 THEN out
    ELSE LET c == comps[1]
             rest == Tail(comps)
         IN  IF c = <<>> \/ c = <<".">> THEN CleanComponents(rest, out, rooted)
             ELSE IF c = <<".", ".">>
                  THEN IF Len(out) > 0 /\ out[Len(out)] # <<".", ".">>
                       THEN CleanComponents(rest, SubSeq(out, 1, Len(out) - 1), rooted)
                       ELSE IF rooted THEN CleanComponents(rest, out, rooted)
                       ELSE CleanComponents(rest, Append(out, c), rooted)
             ELSE CleanComponents(rest, Append(out, c), rooted)

\* filepath.Clean
Clean(path) ==
    IF path = <<>> THEN <<".">>
    ELSE LET rooted == path[1] = "/"
             body == JoinWithSep(CleanComponents(SplitPath(path), <<>>, rooted))
         IN  IF rooted THEN <<"/">> \o body
             ELSE IF body = <<>> THEN <<".">> ELSE body

\* filepath.Join: the elements from the first non-empty one on, joined by
\* the separator, then cleaned
JoinPath(elems) ==
    LET nonEmpty == {i \in 1..Len(elems) : elems[i] # <<>>}
    IN  IF nonEmpty = {} THEN <<>>
        ELSE Clean(JoinWithSep(SubSeq(elems, MinOf(nonEmpty), Len(elems))))

\* a path together with every directory above it
WithParents(path) ==
    {path} \cup {SubSeq(path, 1, k - 1) : k \in {j \in 2..Len(path) : path[j] = "/"}}
           \cup (IF path # <<>> /\ path[1] = "/" THEN {<<"/">>} ELSE {})

(***************************************************************************)
(* Configuration (internal/config)                                         *)
(***************************************************************************)
DirectoryFormatSubdirectory == "subdirectory"
DirectoryFormatSibling == "sibling"
DefaultDirectoryFormat == DirectoryFormatSubdirectory
DefaultSubdirectoryPrefix == <<".">>
DefaultSubdirectorySuffix == <<"-", "w", "t">>

\* the Config value Load starts from
DefaultConfig ==
    [DirectoryFormat    |-> DefaultDirectoryFormat,
     SubdirectoryPrefix |-> DefaultSubdirectoryPrefix,
     SubdirectorySuffix |-> DefaultSubdirectorySuffix]

\* Config.Validate: "" when the configuration is valid, else the error
Validate(c) ==
    IF c.DirectoryFormat # DirectoryFormatSubdirectory
         /\ c.DirectoryFormat # DirectoryFormatSibling
    THEN "invalid directory_format"
    ELSE IF c.SubdirectorySuffix # <<>> /\ c.SubdirectorySuffix[1] # "-"
    THEN "subdirectory_suffix must start with '-'"
    ELSE ""

\* a Config pointer that is nil (Load's result when it fails)
NilConfig ==
    [DirectoryFormat |-> "", SubdirectoryPrefix |-> <<>>, SubdirectorySuffix |-> <<>>]

\* an Unmarshal that gives the keys absent from the file their zero value
UnmarshalZeroes(keys, into) ==
    [k \in DOMAIN into |->
        IF k \in DOMAIN keys THEN keys[k]
        ELSE IF k = "DirectoryFormat" THEN "" ELSE <<>>]

\* yaml.Unmarshal into a Config holding the defaults: the keys present in
\* the file replace the defaults, the others stay
Unmarshal(keys, into) ==
    [k \in DOMAIN into |-> IF k \in DOMAIN keys THEN keys[k] ELSE into[k]]

\* config.Load on a file: the defaults when it does not exist, an error when
\* it does not parse or does not validate
Load(file) ==
    IF ~file.exists THEN [cfg |-> DefaultConfig, err |-> ""]
    ELSE IF ~file.parses THEN [cfg |-> NilConfig, err |-> "failed to parse config file"]
    ELSE LET cfg == Unmarshal(file.keys, DefaultConfig)
         IN  IF Validate(cfg) # "" THEN [cfg |-> NilConfig, err |-> Validate(cfg)]
             ELSE [cfg |-> cfg, err |-> ""]

(***************************************************************************)
(* The path resolver (internal/naming/path.go)                             *)
(***************************************************************************)
maxAttempts == 100

ErrMaxAttempts == "could not generate unique path after 100 attempts"

\* pathExists with the os.Stat result ignored
pathExistsNever(path) == FALSE

\* pathExists: os.Stat(path) succeeds
pathExists(path) == path \in fs

\* what a resolver call returns; checks counts its pathExists calls
Found(path, n) == [path |-> path, err |-> "", checks |-> n]
NotFound(n) == [path |-> <<>>, err |-> ErrMaxAttempts, checks |-> n]

\* before any call: no result, no arguments
NoResult == [path |-> <<>>, err |-> "", checks |-> 0]
NoArgs == [baseDir |-> <<>>, repoName |-> <<>>, sanitizedBranch |-> <<>>,
           cfg |-> DefaultConfig]

\* the retry loop of generateUniquePathInSubdir from iteration i on:
\*   for ; i < maxAttempts; i++ { candidate = ...; if !pathExists(candidate) { return } }
\* the i-th candidate is the i-th existence check of the call
RECURSIVE subdirLoop(_, _, _, _, _)
subdirLoop(baseDir, worktreeDir, branchName, i, attempts) ==
    IF ~(i < attempts) THEN NotFound(i - 1)
    ELSE LET candidate == JoinPath(<<baseDir, worktreeDir, SprintfNum(branchName, i)>>)
         IN  IF ~pathExists(candidate) THEN Found(candidate, i)
             ELSE subdirLoop(baseDir, worktreeDir, branchName, i + 1, attempts)

\* the same loop with the number put on the directory instead of the branch
RECURSIVE subdirLoopOnDir(_, _, _, _, _)
subdirLoopOnDir(baseDir, worktreeDir, branchName, i, attempts) ==
    IF ~(i < attempts) THEN NotFound(i - 1)
    ELSE LET candidate == JoinPath(<<baseDir, SprintfNum(worktreeDir, i), branchName>>)
         IN  IF ~pathExists(candidate) THEN Found(candidate, i)
             ELSE subdirLoopOnDir(baseDir, worktreeDir, branchName, i + 1, attempts)

\* generateUniquePathInSubdir with the loop condition i <= maxAttempts
generateUniquePathInSubdirInclusive(baseDir, worktreeDir, branchName, attempts) ==
    LET candidate == JoinPath(<<baseDir, worktreeDir, branchName>>)
    IN  IF ~pathExists(candidate) THEN Found(candidate, 1)
        ELSE subdirLoop(baseDir, worktreeDir, branchName, 2, attempts + 1)

\* generateUniquePathInSubdir with the number put on the directory, not the branch
generateUniquePathInSubdirOnDir(baseDir, worktreeDir, branchName, attempts) ==
    LET candidate == JoinPath(<<baseDir, worktreeDir, branchName>>)
    IN  IF ~pathExists(candidate) THEN Found(candidate, 1)
        ELSE subdirLoopOnDir(baseDir, worktreeDir, branchName, 2, attempts)

generateUniquePathInSubdir(baseDir, worktreeDir, branchName, attempts) ==
    LET candidate == JoinPath(<<baseDir, worktreeDir, branchName>>)
    IN  IF ~pathExists(candidate) THEN Found(candidate, 1)
        ELSE subdirLoop(baseDir, worktreeDir, branchName, 2, attempts)

\* the retry loop of sibling mode from iteration i on
RECURSIVE siblingLoop(_, _, _, _)
siblingLoop(baseDir, baseName, i, attempts) ==
    IF ~(i < attempts) THEN NotFound(i - 1)
    ELSE LET candidate == JoinPath(<<baseDir, SprintfNum(baseName, i)>>)
         IN  IF ~pathExists(candidate) THEN Found(candidate, i)
             ELSE siblingLoop(baseDir, baseName, i + 1, attempts)

\* GenerateWorktreePathWithConfig returning its first candidate unchecked
GenerateWorktreePathWithConfigUnchecked(baseDir, repoName, sanitizedBranch, cfg) ==
    IF cfg.DirectoryFormat = DirectoryFormatSubdirectory
    THEN Found(JoinPath(<<baseDir,
                          cfg.SubdirectoryPrefix \o repoName \o cfg.SubdirectorySuffix,
                          sanitizedBranch>>), 0)
    ELSE Found(JoinPath(<<baseDir, SprintfStr(repoName, sanitizedBranch)>>), 0)

GenerateWorktreePathWithConfig(baseDir, repoName, sanitizedBranch, cfg) ==
    IF cfg.DirectoryFormat = DirectoryFormatSubdirectory
    THEN LET worktreeDir == cfg.SubdirectoryPrefix \o repoName \o cfg.SubdirectorySuffix
         IN  generateUniquePathInSubdir(baseDir, worktreeDir, sanitizedBranch, maxAttempts)
    ELSE LET baseName == SprintfStr(repoName, sanitizedBranch)
             candidate == JoinPath(<<baseDir, baseName>>)
         IN  IF ~pathExists(candidate) THEN Found(candidate, 1)
             ELSE siblingLoop(baseDir, baseName, 2, maxAttempts)

\* GenerateWorktreePath handing a failed config.Load on to its caller
GenerateWorktreePathStrict(baseDir, repoName, sanitizedBranch) ==
    IF ~configEnv.pathOk
    THEN GenerateWorktreePathWithConfig(baseDir, repoName, sanitizedBranch, DefaultConfig)
    ELSE LET loaded == Load(configEnv)
         IN  IF loaded.err # "" THEN [path |-> <<>>, err |-> loaded.err, checks |-> 0]
             ELSE GenerateWorktreePathWithConfig(baseDir, repoName, sanitizedBranch,
                                                 loaded.cfg)

\* GenerateWorktreePath: the configuration is loaded from the default path;
\* when the path cannot be determined or the load fails, the defaults are used
GenerateWorktreePath(baseDir, repoName, sanitizedBranch) ==
    IF ~configEnv.pathOk
    THEN GenerateWorktreePathWithConfig(baseDir, repoName, sanitizedBranch, DefaultConfig)
    ELSE LET loaded == Load(configEnv)
             cfg == IF loaded.err # "" THEN DefaultConfig ELSE loaded.cfg
         IN  GenerateWorktreePathWithConfig(baseDir, repoName, sanitizedBranch, cfg)

(***************************************************************************)
(* The commands that create worktrees: wt new (runNewWithConfig) and       *)
(* wt tmux new (createMultipleWorktrees)                                   *)
(***************************************************************************)
Whitespace == {" ", "\t", "\n", "\r"}

\* strings.Contains(s, "..")
ContainsDotDot(s) == \E i \in 1..(Len(s) - 1) : s[i] = "." /\ s[i + 1] = "."

\* validateBranchName: "" when the name is accepted, else the error
validateBranchName(branch) ==
    IF \A i \in 1..Len(branch) : branch[i] \in Whitespace
    THEN "branch name cannot be empty"
    ELSE IF ContainsDotDot(branch) \/ branch[1] = "-"
    THEN "invalid branch name"
    ELSE ""

\* the processes that run commands
Procs == {"p1", "p2"}

\* a process between commands, before its first one
Idle == [pc |-> "idle", branch |-> <<>>, path |-> <<>>, made |-> <<>>, err |-> "",
         prefix |-> <<>>, i |-> 0, count |-> 0, cmds |-> 0]

\* the configuration environment: no file, or a file with the given keys
NoFile == [pathOk |-> TRUE, exists |-> FALSE, parses |-> TRUE, keys |-> <<>>]
FileWith(keys) == [pathOk |-> TRUE, exists |-> TRUE, parses |-> TRUE, keys |-> keys]

(***************************************************************************)
(* The Sanitize specification: Init draws a branch name, the actions apply *)
(* Sanitize to it and then to its own result.                              *)
(***************************************************************************)
MaxShortLen == 4
MaxAffixLen == 1
FillSlack == 2

\* representatives: a letter, the hyphen, the slash, a disallowed character
SanAlphabet == {"a", "-", "/", ";"}

ShortInputs == StringsUpTo(SanAlphabet, MaxShortLen)

\* long branch names around the length limit: head, a run of letters, tail
LongInputs ==
    {h \o Repeat("a", k) \o t :
        h \in StringsUpTo(SanAlphabet, MaxAffixLen),
        t \in StringsUpTo(SanAlphabet, MaxAffixLen + 1),
        k \in (maxLength - FillSlack)..(maxLength + 1)}

\* the inputs of the documented examples (Sanitize's doc comment and
\* TestSessionNameSanitization)
ExFeature == <<"f","e","a","t","u","r","e","/","n","e","w","-","u","i">>
ExEvil    == <<"e","v","i","l",";"," ","r","m"," ","-","r","f"," ","/">>
ExSession == <<"s","e","s","s","i","o","n","!","!","!","n","a","m","e">>

ExampleInputs == {ExFeature, ExEvil, ExSession}

SanInputs == ShortInputs \cup LongInputs \cup ExampleInputs

SanInit ==
    /\ sanPc = "input"
    /\ sanIn \in SanInputs
    /\ sanOut = <<>>
    /\ sanAgain = <<>>
    /\ fs = {} /\ resPc = "off" /\ resIn = NoArgs /\ resOut = NoResult
    /\ configEnv = NoFile /\ inUse = {} /\ proc = [p \in Procs |-> Idle]
    /\ ExtOff
    /\ flt = FltOff /\ sel = SelOff

SanitizeCall ==
    /\ sanPc = "input"
    /\ sanOut' = Sanitize(sanIn)
    /\ sanPc' = "once"
    /\ UNCHANGED <<sanIn, sanAgain, fs, resVars, cmdVars, selVars, extVars>>

SanitizeAgain ==
    /\ sanPc = "once"
    /\ sanAgain' = Sanitize(sanOut)
    /\ sanPc' = "twice"
    /\ UNCHANGED <<sanIn, sanOut, fs, resVars, cmdVars, selVars, extVars>>

SanNext == SanitizeCall \/ SanitizeAgain

SpecSanitize == SanInit /\ [][SanNext]_vars

(***************************************************************************)
(* The resolver specification: Init draws the arguments and a filesystem   *)
(* in which earlier worktrees occupy some of the candidate paths, the      *)
(* action applies GenerateWorktreePathWithConfig.                          *)
(***************************************************************************)
PrefillNear == 2
PrefillSlack == 2

BaseDir == <<"/", "w">>
RepoName == <<"p">>

\* the candidate path number n for a label, written out as the text
\*   base/<prefix><project><suffix>/<label>[-n]   (subdirectory)
\*   base/<project>-<label>[-n]                   (sibling)
\* and normalised lexically
ExpectedPath(cfg, base, project, label, n) ==
    LET tail == IF n = 1 THEN <<>> ELSE <<"-">> \o Itoa(n)
    IN  Clean(IF cfg.DirectoryFormat = DirectoryFormatSubdirectory
              THEN base \o <<"/">> \o cfg.SubdirectoryPrefix \o project
                        \o cfg.SubdirectorySuffix \o <<"/">> \o label \o tail
              ELSE base \o <<"/">> \o project \o <<"-">> \o label \o tail)

\* the entries every filesystem starts with: the main checkout and what is above it
RepoEntries == WithParents(BaseDir \o <<"/">> \o RepoName)

\* a filesystem in which the candidates 1..m of a label, except number
\* `hole`, are occupied by directories (as the path tests create them with
\* os.MkdirAll)
Occupied(cfg, label, m, hole) ==
    RepoEntries \cup
    UNION {WithParents(ExpectedPath(cfg, BaseDir, RepoName, label, n)) :
             n \in (1..m) \ {hole}}

ResConfigs ==
    [DirectoryFormat    : {DirectoryFormatSubdirectory, DirectoryFormatSibling},
     SubdirectoryPrefix : {<<>>, <<".">>},
     SubdirectorySuffix : {<<>>, <<"-", "w", "t">>}]

\* branch names whose sanitized forms are the labels: a plain one, one that
\* sanitizes to a numbered look-alike, one that sanitizes to "", and "."
ResBranches == {<<"a">>, <<"a", "/", "2">>, <<"!">>, <<".">>}
ResLabels == {Sanitize(b) : b \in ResBranches}

PrefillCounts ==
    (0..PrefillNear) \cup ((maxAttempts - 1 - PrefillSlack)..(maxAttempts + 1))
PrefillHoles ==
    (0..PrefillNear) \cup ((maxAttempts - PrefillSlack)..maxAttempts)

ResInit ==
    /\ resPc = "input"
    /\ \E cfg \in ResConfigs, label \in ResLabels, other \in ResLabels,
          m \in PrefillCounts, hole \in PrefillHoles :
         /\ other \in {label, <<"a">>}
         /\ hole <= m
         /\ resIn = [baseDir |-> BaseDir, repoName |-> RepoName,
                     sanitizedBranch |-> label, cfg |-> cfg]
         /\ fs = Occupied(cfg, other, m, hole)
    /\ resOut = NoResult
    /\ sanPc = "off" /\ sanIn = <<>> /\ sanOut = <<>> /\ sanAgain = <<>>
    /\ configEnv = NoFile /\ inUse = {} /\ proc = [p \in Procs |-> Idle]
    /\ ExtOff
    /\ flt = FltOff /\ sel = SelOff

ResolveCall ==
    /\ resPc = "input"
    /\ resOut' = GenerateWorktreePathWithConfig(resIn.baseDir, resIn.repoName,
                                                resIn.sanitizedBranch, resIn.cfg)
    /\ resPc' = "done"
    /\ UNCHANGED <<resIn, fs, sanVars, cmdVars, selVars, extVars>>

ResNext == ResolveCall

SpecResolve == ResInit /\ [][ResNext]_vars

(***************************************************************************)
(* The command specification: processes run wt new and wt tmux new side    *)
(* by side on one repository. Each resolves a path and then lets git       *)
(* create the worktree there; other processes may act in between.          *)
(***************************************************************************)
MaxCommands == 2
MaxCount == 2
MaxExisting == 1

ConfigEnvs ==
    { NoFile,
      FileWith([DirectoryFormat |-> DirectoryFormatSibling]),
      FileWith([SubdirectoryPrefix |-> <<>>]),
      FileWith([DirectoryFormat |-> "flat"]),
      FileWith([DirectoryFormat |-> DirectoryFormatSibling,
                SubdirectorySuffix |-> <<"w", "t">>]),
      [pathOk |-> TRUE, exists |-> TRUE, parses |-> FALSE, keys |-> <<>>],
      [pathOk |-> FALSE, exists |-> FALSE, parses |-> TRUE, keys |-> <<>>] }

\* the settings path generation ends up using
EffectiveConfig(env) ==
    IF ~env.pathOk \/ Load(env).err # "" THEN DefaultConfig ELSE Load(env).cfg

\* branch names given to wt new, and the prefix given to wt tmux new
NewBranches == {<<"a">>, <<"a", "/", "2">>, <<"a", "-", "2">>, <<"-", "a">>}
TmuxPrefixes == {<<"a">>}

Started == LET n1 == proc["p1"].cmds
               n2 == proc["p2"].cmds
           IN  n1 + n2

Init ==
    /\ configEnv \in ConfigEnvs
    /\ \E m \in 0..MaxExisting :
         fs = Occupied(EffectiveConfig(configEnv), <<"a">>, m, 0)
    /\ inUse = {}
    /\ proc = [p \in Procs |-> Idle]
    /\ ExtOff
    /\ sanPc = "off" /\ sanIn = <<>> /\ sanOut = <<>> /\ sanAgain = <<>>
    /\ resPc = "off" /\ resIn = NoArgs /\ resOut = NoResult
    /\ flt = FltOff /\ sel = SelOff

\* the command of process p ends with an error: nothing was created
Fail(p, e) ==
    proc' = [proc EXCEPT ![p] = [@ EXCEPT !.pc = "idle", !.err = e, !.path = <<>>]]

\* gitx.Add (git worktree add): fails when the path is taken or the branch
\* is checked out elsewhere, otherwise creates the directory and checks the
\* branch out in it
AddFails(path, branch) == path \in fs \/ branch \in inUse

\* NewResolve with a resolver that reserves the path it returns by creating it
NewResolveReserving(p, b) ==
    /\ proc[p].pc = "idle"
    /\ Started < MaxCommands
    /\ LET v == validateBranchName(b)
           r == GenerateWorktreePath(BaseDir, RepoName, Sanitize(b))
           q == [proc[p] EXCEPT !.cmds = @ + 1, !.branch = b]
       IN  /\ proc' = [proc EXCEPT ![p] =
                  IF v # "" THEN [q EXCEPT !.err = v]
                  ELSE IF r.err # ""
                  THEN [q EXCEPT !.err = "failed to generate worktree path"]
                  ELSE [q EXCEPT !.pc = "resolved", !.path = r.path, !.err = ""]]
           /\ fs' = IF v = "" /\ r.err = "" THEN fs \cup WithParents(r.path) ELSE fs
    /\ UNCHANGED <<inUse, configEnv, sanVars, resVars, selVars, extVars>>

\* wt new <branch>, up to the generated path
NewResolve(p, b) ==
    /\ proc[p].pc = "idle"
    /\ Started < MaxCommands
    /\ LET v == validateBranchName(b)
           r == GenerateWorktreePath(BaseDir, RepoName, Sanitize(b))
           q == [proc[p] EXCEPT !.cmds = @ + 1, !.branch = b]
       IN  proc' = [proc EXCEPT ![p] =
                IF v # "" THEN [q EXCEPT !.err = v]
                ELSE IF r.err # ""
                THEN [q EXCEPT !.err = "failed to generate worktree path"]
                ELSE [q EXCEPT !.pc = "resolved", !.path = r.path, !.err = ""]]
    /\ UNCHANGED <<fs, inUse, configEnv, sanVars, resVars, selVars, extVars>>

\* wt new, from checkBranchNotInUse to the end
NewAdd(p) ==
    /\ proc[p].pc = "resolved"
    /\ IF proc[p].branch \in inUse
       THEN Fail(p, "branch in use") /\ UNCHANGED <<fs, inUse, extVars>>
       ELSE IF AddFails(proc[p].path, proc[p].branch)
       THEN Fail(p, "failed to create worktree") /\ UNCHANGED <<fs, inUse, extVars>>
       ELSE /\ fs' = fs \cup WithParents(proc[p].path)
            /\ inUse' = inUse \cup {proc[p].branch}
            /\ proc' = [proc EXCEPT ![p] =
                   [@ EXCEPT !.pc = "idle", !.made = Append(@, proc[p].path),
                             !.path = <<>>]]
    /\ UNCHANGED <<configEnv, sanVars, resVars, selVars, extVars>>

\* wt tmux new <prefix> --count n, up to the call of createMultipleWorktrees
TmuxStart(p, prefix, n) ==
    /\ proc[p].pc = "idle"
    /\ Started < MaxCommands
    /\ LET v == validateBranchName(prefix)
           q == [proc[p] EXCEPT !.cmds = @ + 1, !.prefix = prefix]
       IN  proc' = [proc EXCEPT ![p] =
                IF v # "" THEN [q EXCEPT !.err = v]
                ELSE IF n < 1 THEN [q EXCEPT !.err = "count must be at least 1"]
                ELSE [q EXCEPT !.pc = "loop", !.i = 1, !.count = n, !.err = ""]]
    /\ UNCHANGED <<fs, inUse, configEnv, sanVars, resVars, selVars, extVars>>

\* one iteration of createMultipleWorktrees, up to the generated path
TmuxResolve(p) ==
    /\ proc[p].pc = "loop"
    /\ LET branchName == SprintfNum(proc[p].prefix, proc[p].i)
           r == GenerateWorktreePath(BaseDir, RepoName, Sanitize(branchName))
       IN  IF branchName \in inUse THEN Fail(p, "branch in use")
           ELSE IF r.err # "" THEN Fail(p, "failed to generate worktree path")
           ELSE proc' = [proc EXCEPT ![p] =
                    [@ EXCEPT !.pc = "loopResolved", !.branch = branchName,
                              !.path = r.path]]
    /\ UNCHANGED <<fs, inUse, configEnv, sanVars, resVars, selVars, extVars>>

\* the rest of the iteration: the worktree is created and the loop goes on
TmuxAdd(p) ==
    /\ proc[p].pc = "loopResolved"
    /\ IF AddFails(proc[p].path, proc[p].branch)
       THEN Fail(p, "failed to create worktree") /\ UNCHANGED <<fs, inUse, extVars>>
       ELSE /\ fs' = fs \cup WithParents(proc[p].path)
            /\ inUse' = inUse \cup {proc[p].branch}
            /\ proc' = [proc EXCEPT ![p] =
                   [@ EXCEPT !.pc = IF proc[p].i < proc[p].count THEN "loop" ELSE "idle",
                             !.i = @ + 1,
                             !.made = Append(@, proc[p].path),
                             !.path = <<>>]]
    /\ UNCHANGED <<configEnv, sanVars, resVars, selVars, extVars>>

Next ==
    \/ \E p \in Procs, b \in NewBranches : NewResolve(p, b)
    \/ \E p \in Procs : NewAdd(p)
    \/ \E p \in Procs, prefix \in TmuxPrefixes, n \in 0..MaxCount : TmuxStart(p, prefix, n)
    \/ \E p \in Procs : TmuxResolve(p)
    \/ \E p \in Procs : TmuxAdd(p)

Spec == Init /\ [][Next]_vars

(***************************************************************************)
(* selectx.FilterByQuery                                                   *)
(***************************************************************************)
UpperOrder == <<"A","B","C","D","E","F","G","H","I","J","K","L","M",
                "N","O","P","Q","R","S","T","U","V","W","X","Y","Z">>
LowerOrder == <<"a","b","c","d","e","f","g","h","i","j","k","l","m",
                "n","o","p","q","r","s","t","u","v","w","x","y","z">>

\* ToLower that leaves every character as it is
ToLowerKeepCase(s) == s

\* strings.ToLower
ToLower(s) ==
    [i \in 1..Len(s) |->
        IF \E k \in 1..Len(UpperOrder) : UpperOrder[k] = s[i]
        THEN LowerOrder[CHOOSE k \in 1..Len(UpperOrder) : UpperOrder[k] = s[i]]
        ELSE s[i]]

\* strings.HasPrefix
HasPrefix(s, prefix) ==
    Len(prefix) <= Len(s) /\ SubSeq(s, 1, Len(prefix)) = prefix

\* strings.Contains
Contains(s, substr) ==
    \E i \in 0..(Len(s) - Len(substr)) : SubSeq(s, i + 1, i + Len(substr)) = substr

\* fmt.Errorf with one %s: the fixed text, then the argument; <<>> is nil
Errorf(text, arg) == <<text>> \o arg
NilError == <<>>

\* the struct FilterItem; Index counts from 0 as in the source
FilterItem(index, text, score) == [Index |-> index, Text |-> text, Score |-> score]

\* the loop with the substring rule tried first
RECURSIVE filterLoopSubstringFirst(_, _, _, _)
filterLoopSubstringFirst(items, query, i, matches) ==
    IF i >= Len(items) THEN matches
    ELSE LET item == items[i + 1]
             lowerItem == ToLower(item)
         IN  IF Contains(lowerItem, query)
             THEN filterLoopSubstringFirst(items, query, i + 1,
                      Append(matches, FilterItem(i, item, 50)))
             ELSE IF HasPrefix(lowerItem, query)
             THEN filterLoopSubstringFirst(items, query, i + 1,
                      Append(matches, FilterItem(i, item, 80)))
             ELSE IF lowerItem = query
             THEN filterLoopSubstringFirst(items, query, i + 1,
                      Append(matches, FilterItem(i, item, 100)))
             ELSE filterLoopSubstringFirst(items, query, i + 1, matches)

\* for i, item := range items, from index i on, with the matches so far
RECURSIVE filterLoop(_, _, _, _)
filterLoop(items, query, i, matches) ==
    IF i >= Len(items) THEN matches
    ELSE LET item == items[i + 1]
             lowerItem == ToLower(item)
         IN  IF lowerItem = query
             THEN filterLoop(items, query, i + 1,
                      Append(matches, FilterItem(i, item, 100)))
             ELSE IF HasPrefix(lowerItem, query)
             THEN filterLoop(items, query, i + 1,
                      Append(matches, FilterItem(i, item, 80)))
             ELSE IF Contains(lowerItem, query)
             THEN filterLoop(items, query, i + 1,
                      Append(matches, FilterItem(i, item, 50)))
             ELSE filterLoop(items, query, i + 1, matches)

\* what FilterByQuery returns: the result slice and the error
FilterReturn(result, err) == [result |-> result, err |-> err]

\* FilterByQuery without the empty-query case
FilterByQueryAlwaysFilters(items, query) ==
    LET matches == filterLoop(items, ToLower(query), 0, <<>>)
    IN  IF Len(matches) = 0
        THEN FilterReturn(<<>>, Errorf("no matches found for query: ", ToLower(query)))
        ELSE FilterReturn(matches, NilError)

\* FilterByQuery that numbers the survivors by their place in the result
FilterByQueryRenumbers(items, query) ==
    LET matches == filterLoop(items, ToLower(query), 0, <<>>)
    IN  IF query = <<>>
        THEN FilterReturn([i \in 1..Len(items) |-> FilterItem(i - 1, items[i], 0)],
                          NilError)
        ELSE IF Len(matches) = 0
        THEN FilterReturn(<<>>, Errorf("no matches found for query: ", ToLower(query)))
        ELSE FilterReturn([i \in 1..Len(matches) |->
                              [matches[i] EXCEPT !.Index = i - 1]], NilError)

FilterByQuery(items, query) ==
    IF query = <<>>
    THEN FilterReturn([i \in 1..Len(items) |-> FilterItem(i - 1, items[i], 0)],
                      NilError)
    ELSE LET matches == filterLoop(items, ToLower(query), 0, <<>>)
         IN  IF Len(matches) = 0
             THEN FilterReturn(<<>>,
                      Errorf("no matches found for query: ", ToLower(query)))
             ELSE FilterReturn(matches, NilError)

(***************************************************************************)
(* Specification of the match filter: FilterByQuery is called once on a    *)
(* list of candidates and a query.                                         *)
(***************************************************************************)
MaxFilterItems == 3

FilterWords ==
    { <<>>, <<"a">>, <<"A">>, <<"b">>, <<"a","b">>, <<"A","b">>,
      <<"b","a">>, <<"b","A">> }

FilterQueries ==
    { <<>>, <<"a">>, <<"A">>, <<"a","b">>, <<"A","B">>, <<"c">> }

FilterLists == UNION { [1..n -> FilterWords] : n \in 0..MaxFilterItems }

FltInit ==
    /\ \E items \in FilterLists, query \in FilterQueries :
         flt = [pc |-> "input", items |-> items, query |-> query,
                result |-> <<>>, err |-> NilError]
    /\ sel = SelOff
    /\ sanPc = "off" /\ sanIn = <<>> /\ sanOut = <<>> /\ sanAgain = <<>>
    /\ fs = {} /\ resPc = "off" /\ resIn = NoArgs /\ resOut = NoResult
    /\ configEnv = NoFile /\ inUse = {} /\ proc = [p \in Procs |-> Idle]
    /\ ExtOff

FilterCall ==
    /\ flt.pc = "input"
    /\ LET r == FilterByQuery(flt.items, flt.query)
       IN  flt' = [flt EXCEPT !.pc = "done", !.result = r.result, !.err = r.err]
    /\ UNCHANGED <<sel, fs, sanVars, resVars, cmdVars, extVars>>

FltNext == FilterCall

SpecFilter == FltInit /\ [][FltNext]_vars

(***************************************************************************)
(* gitx.List and the display items of wt go / open / clean                 *)
(*                                                                         *)
(* A line of `git worktree list --porcelain` is kept as what               *)
(* strings.SplitN(strings.TrimSpace(line), " ", 2) makes of it: <<>> for   *)
(* an empty line, <<key>> for a line without a space, <<key, value>>       *)
(* otherwise.  The prefix "refs/heads/" of a branch value is one element.  *)
(***************************************************************************)
Worktree(path) ==
    [Path |-> path, HEAD |-> <<>>, Branch |-> <<>>, IsDetached |-> FALSE,
     IsLocked |-> FALSE, IsPrunable |-> FALSE]

\* current: <<>> when nil, else the one worktree it points to
NoCurrent == <<>>
PointerTo(wt) == <<wt>>

\* strings.TrimPrefix(value, "refs/heads/")
TrimPrefixRefsHeads(value) ==
    IF Len(value) > 0 /\ value[1] = "refs/heads/" THEN Tail(value) ELSE value

\* the body of the loop over the lines, from line i on
RECURSIVE parseLoop(_, _, _, _)
parseLoop(lines, i, worktrees, current) ==
    IF i > Len(lines)
    THEN IF current # NoCurrent THEN Append(worktrees, current[1]) ELSE worktrees
    ELSE LET line == lines[i]
             key == line[1]
             value == line[2]
             wt == current[1]
         IN  IF line = <<>>
             THEN IF current # NoCurrent
                  THEN parseLoop(lines, i + 1, Append(worktrees, wt), NoCurrent)
                  ELSE parseLoop(lines, i + 1, worktrees, current)
             ELSE IF Len(line) < 2
             THEN parseLoop(lines, i + 1, worktrees, current)
             ELSE IF key = "worktree"
             THEN parseLoop(lines, i + 1, worktrees, PointerTo(Worktree(value)))
             ELSE IF current = NoCurrent
             THEN parseLoop(lines, i + 1, worktrees, current)
             ELSE IF key = "HEAD"
             THEN parseLoop(lines, i + 1, worktrees,
                      PointerTo([wt EXCEPT !.HEAD = value]))
             ELSE IF key = "branch"
             THEN parseLoop(lines, i + 1, worktrees,
                      PointerTo([wt EXCEPT !.Branch = TrimPrefixRefsHeads(value)]))
             ELSE IF key = "detached"
             THEN parseLoop(lines, i + 1, worktrees,
                      PointerTo([wt EXCEPT !.IsDetached = TRUE]))
             ELSE IF key = "locked"
             THEN parseLoop(lines, i + 1, worktrees,
                      PointerTo([wt EXCEPT !.IsLocked = TRUE]))
             ELSE IF key = "prunable"
             THEN parseLoop(lines, i + 1, worktrees,
                      PointerTo([wt EXCEPT !.IsPrunable = TRUE]))
             ELSE parseLoop(lines, i + 1, worktrees, current)

parseWorktreePorcelain(output) == parseLoop(output, 1, <<>>, NoCurrent)

formatBranch(wt) ==
    IF ~wt.IsDetached THEN wt.Branch
    ELSE LET headShort == IF Len(wt.HEAD) > 7 THEN SubSeq(wt.HEAD, 1, 7) ELSE wt.HEAD
         IN  <<"(","d","e","t","a","c","h","e","d",":"," ">> \o headShort \o <<")">>

createDisplayItems(worktrees) ==
    [i \in 1..Len(worktrees) |->
        formatBranch(worktrees[i]) \o <<"\t">> \o worktrees[i].Path]

(***************************************************************************)
(* selectx: the two selection strategies.  Each is split where it waits    *)
(* for the outside world: Start runs up to the subprocess or the read,     *)
(* Finish from there to the return.                                        *)
(***************************************************************************)
\* (index, error): an error is its message, NilError when there is none
Return(idx, err) == [idx |-> idx, err |-> err]

ErrNoItems == <<"no items to select from">>
ErrCancelled == <<"selection cancelled">>

\* strings.TrimSpace
TrimSpace(s) ==
    LET keep == {i \in 1..Len(s) : s[i] \notin Whitespace}
    IN  IF keep = {} THEN <<>> ELSE SubSeq(s, MinOf(keep), MaxOf(keep))

\* strings.Join(items, "\n")
RECURSIVE JoinLines(_)
JoinLines(items) ==
    IF Len(items) = 0 THEN <<>>
    ELSE IF Len(items) = 1 THEN items[1]
    ELSE items[1] \o <<"\n">> \o JoinLines(Tail(items))

\* what a strategy has done when it stops: it returned (ret), or it waits
\* with these lines on stderr and this text on the subprocess's stdin
Returned(ret) == [waits |-> FALSE, ret |-> ret, stderr |-> <<>>, stdin |-> <<>>]
Waiting(stderr, stdin) ==
    [waits |-> TRUE, ret |-> Return(-1, NilError), stderr |-> stderr, stdin |-> stdin]

\* ---- SelectWithFzf
SelectWithFzfStart(items) ==
    IF Len(items) = 0 THEN Returned(Return(-1, ErrNoItems))
    ELSE Waiting(<<>>, JoinLines(items))

\* the outcomes of cmd.Run(): run is "nil", "exit" (an *exec.ExitError with
\* this exit code) or "other" (the process could not be run)
FzfOutcome(run, code, stdout, stderr) ==
    [run |-> run, code |-> code, stdout |-> stdout, stderr |-> stderr]

\* err.Error() of the error cmd.Run() returned
RunErrorText(outcome) ==
    IF outcome.run = "exit" THEN <<"exit status ">> \o Itoa(outcome.code)
    ELSE <<"exec: not started">>

\* the index of the first item equal to selected, -1 if there is none
IndexOfItem(items, selected) ==
    LET hits == {i \in 1..Len(items) : items[i] = selected}
    IN  IF hits = {} THEN -1 ELSE MinOf(hits) - 1

\* SelectWithFzf that treats exit status 130 like any other failure
SelectWithFzfFinishNoCancel(items, outcome) ==
    IF outcome.run # "nil"
    THEN Return(-1, <<"fzf failed: ">> \o RunErrorText(outcome) \o <<": ">> \o outcome.stderr)
    ELSE LET selected == TrimSpace(outcome.stdout)
         IN  IF selected = <<>> THEN Return(-1, <<"no selection made">>)
             ELSE IF IndexOfItem(items, selected) >= 0
             THEN Return(IndexOfItem(items, selected), NilError)
             ELSE Return(-1, <<"selected item not found in list">>)

SelectWithFzfFinish(items, outcome) ==
    IF outcome.run # "nil"
    THEN IF outcome.run = "exit" /\ outcome.code = 130
         THEN Return(-1, ErrCancelled)
         ELSE Return(-1, <<"fzf failed: ">> \o RunErrorText(outcome)
                             \o <<": ">> \o outcome.stderr)
    ELSE LET selected == TrimSpace(outcome.stdout)
         IN  IF selected = <<>> THEN Return(-1, <<"no selection made">>)
             ELSE IF IndexOfItem(items, selected) >= 0
             THEN Return(IndexOfItem(items, selected), NilError)
             ELSE Return(-1, <<"selected item not found in list">>)

\* ---- strconv.Atoi, for an int of 64 bits
MaxIntDigits == <<"9","2","2","3","3","7","2","0","3","6",
                  "8","5","4","7","7","5","8","0","7">>
MinIntDigits == <<"9","2","2","3","3","7","2","0","3","6",
                  "8","5","4","7","7","5","8","0","8">>

DigitVal(c) == (CHOOSE k \in 1..Len(Digits) : Digits[k] = c) - 1

\* the sign and the digits of s, and the digits without their leading zeros
SignOf(s) == IF Len(s) > 0 /\ s[1] \in {"+", "-"} THEN s[1] ELSE ""
BodyOf(s) == IF SignOf(s) # "" THEN Tail(s) ELSE s
Significant(d) ==
    LET keep == {i \in 1..Len(d) : d[i] # "0"}
    IN  IF keep = {} THEN <<>> ELSE SubSeq(d, MinOf(keep), Len(d))

\* d <= limit for digit strings without leading zeros
DigitsAtMost(d, limit) ==
    \/ Len(d) < Len(limit)
    \/ /\ Len(d) = Len(limit)
       /\ \/ d = limit
          \/ \E k \in 1..Len(d) :
                /\ SubSeq(d, 1, k - 1) = SubSeq(limit, 1, k - 1)
                /\ DigitVal(d[k]) < DigitVal(limit[k])

RECURSIVE ValueOf(_)
ValueOf(d) ==
    IF Len(d) = 0 THEN 0
    ELSE ValueOf(SubSeq(d, 1, Len(d) - 1)) * 10 + DigitVal(d[Len(d)])

\* Atoi(s): ok is err == nil; text is the number as %d prints it; num is
\* the number, kept as +-1000000000 when it has more than nine digits (it
\* is only compared with 1 and len(items))
Atoi(s) ==
    LET body == BodyOf(s)
        sig == Significant(body)
        neg == SignOf(s) = "-"
        syntax == Len(body) > 0 /\ \A i \in 1..Len(body) : body[i] \in DigitChars
        fits == DigitsAtMost(sig, IF neg THEN MinIntDigits ELSE MaxIntDigits)
        mag == IF Len(sig) > 9 THEN 1000000000 ELSE ValueOf(sig)
    IN  IF syntax /\ fits
        THEN [ok |-> TRUE, num |-> IF neg THEN 0 - mag ELSE mag,
              text |-> IF sig = <<>> THEN <<"0">>
                       ELSE IF neg THEN <<"-">> \o sig ELSE sig]
        ELSE [ok |-> FALSE, num |-> 0, text |-> <<>>]

\* ---- SelectWithPrompt
PromptText == <<"Select worktree">>

\* what the fallback prints on stderr before it reads
PromptLines(items, prompt) ==
    <<prompt \o <<":", "\n">>>>
    \o [i \in 1..Len(items) |->
           <<" ", " ">> \o Itoa(i) \o <<")", " ">> \o items[i] \o <<"\n">>]
    \o << <<"\n", "Select number (1-">> \o Itoa(Len(items)) \o <<", or q to quit): ">> >>

\* SelectWithPrompt without the check for an empty list
SelectWithPromptStartUnchecked(items) ==
    IF Len(items) = 1 THEN Returned(Return(0, NilError))
    ELSE Waiting(PromptLines(items, PromptText), <<>>)

SelectWithPromptStart(items) ==
    IF Len(items) = 0 THEN Returned(Return(-1, ErrNoItems))
    ELSE IF Len(items) = 1 THEN Returned(Return(0, NilError))
    ELSE Waiting(PromptLines(items, PromptText), <<>>)

\* what reader.ReadString('\n') returned: the line, or an error
ReadResult(line, failed) == [line |-> line, failed |-> failed]

\* SelectWithPrompt that takes the number typed as the index
SelectWithPromptFinishZeroBased(items, read) ==
    LET input == TrimSpace(read.line)
        n == Atoi(input)
    IN  IF read.failed THEN Return(-1, <<"failed to read input: ", "EOF">>)
        ELSE IF input = <<"q">> \/ input = <<"Q">> \/ input = <<>>
        THEN Return(-1, ErrCancelled)
        ELSE IF ~n.ok THEN Return(-1, <<"invalid input: ">> \o input)
        ELSE IF n.num < 0 \/ n.num >= Len(items)
        THEN Return(-1, <<"number out of range: ">> \o n.text
                            \o <<" (expected 1-">> \o Itoa(Len(items)) \o <<")">>)
        ELSE Return(n.num, NilError)

SelectWithPromptFinish(items, read) ==
    LET input == TrimSpace(read.line)
        n == Atoi(input)
    IN  IF read.failed THEN Return(-1, <<"failed to read input: ", "EOF">>)
        ELSE IF input = <<"q">> \/ input = <<"Q">> \/ input = <<>>
        THEN Return(-1, ErrCancelled)
        ELSE IF ~n.ok THEN Return(-1, <<"invalid input: ">> \o input)
        ELSE IF n.num < 1 \/ n.num > Len(items)
        THEN Return(-1, <<"number out of range: ">> \o n.text
                            \o <<" (expected 1-">> \o Itoa(Len(items)) \o <<")">>)
        ELSE Return(n.num - 1, NilError)

(***************************************************************************)
(* cli: selectWorktree, selectByQuery, selectWorktreeIndex                 *)
(***************************************************************************)
NoWorktreesError == <<"no worktrees found">>
NoMatchError(query) == <<"no matching worktree found: ">> \o query
IndexOutOfRangeError(index, max) ==
    <<"index out of range: ">> \o Itoa(index) \o <<" (max: ">> \o Itoa(max) \o <<")">>

\* selectWorktree: the strategy it picks and how far that strategy gets
selectWorktree(items, noFzf, fzfAvailable) ==
    IF ~noFzf /\ fzfAvailable
    THEN [strategy |-> "fzf", start |-> SelectWithFzfStart(items)]
    ELSE [strategy |-> "prompt", start |-> SelectWithPromptStart(items)]

\* filteredItems[i] = f.Text
filteredItems(filtered) == [i \in 1..Len(filtered) |-> filtered[i].Text]

\* the end of selectByQuery that returns the selector's index as it is
selectByQueryReturnUnmapped(filtered, ret) ==
    IF ret.err # NilError THEN Return(0, ret.err)
    ELSE Return(ret.idx, NilError)

\* the end of selectByQuery, after selectWorktree returned ret
selectByQueryReturn(filtered, ret) ==
    IF ret.err # NilError THEN Return(0, ret.err)
    ELSE Return(filtered[ret.idx + 1].Index, NilError)

(***************************************************************************)
(* Specification of a selection: wt go (runGoWithConfig), wt open / clean  *)
(* (selectWorktreeByQueryOrInteractive) or selectWorktree called on a list *)
(* of items, up to the subprocess or the read it waits for, and from the   *)
(* picker's exit or the line read to the return.                           *)
(***************************************************************************)
MaxWorktrees == 3

\* one worktree of `git worktree list --porcelain`
BlockBranch(path, head, name) ==
    << <<"worktree", path>>, <<"HEAD", head>>,
       <<"branch", <<"refs/heads/">> \o name>>, <<>> >>
BlockDetached(path, head) ==
    << <<"worktree", path>>, <<"HEAD", head>>, <<"detached">>, <<>> >>

GitBlocks ==
    { BlockBranch(<<"/","r">>, <<"1">>, <<"m">>),
      BlockBranch(<<"/","a">>, <<"2">>, <<"a">>),
      BlockBranch(<<"/","b">>, <<"3">>, <<"A","b">>),
      BlockDetached(<<"/","d">>, <<"4","5","6","7","8","9","0","1">>) }

RECURSIVE Flatten(_)
Flatten(blocks) ==
    IF Len(blocks) = 0 THEN <<>> ELSE blocks[1] \o Flatten(Tail(blocks))

\* the outputs of git: up to MaxWorktrees different worktrees
GitOutputs ==
    { Flatten(blocks) : blocks \in
        { b \in UNION { [1..n -> GitBlocks] : n \in 0..MaxWorktrees } :
            \A i, j \in 1..Len(b) : i # j => b[i] # b[j] } }

SelQueries ==
    { <<>>, <<"a">>, <<"A">>, <<"m">>, <<"d">>, <<"/">>, <<"x">> }

\* --index: -1 when not given
IndexFlags == {-1, 0, 2}

\* the lines the user may type, and the end of input
PromptReads ==
    { ReadResult(line \o <<"\n">>, FALSE) : line \in
        { <<"q">>, <<"Q">>, <<>>, <<" ", "2", " ">>, <<"1">>, <<"2">>, <<"3">>,
          <<"0">>, <<"4">>, <<"-", "1">>, <<"+", "2">>, <<"0", "2">>, <<"x">>,
          <<"2", "x">>, <<"-">>, MaxIntDigits, MinIntDigits,
          <<"-">> \o MinIntDigits, <<"-">> \o MaxIntDigits \o <<"0">> } }
    \cup { ReadResult(<<"2">>, TRUE) }

\* the ways the picker may end: the user chose the k-th line, or it exited
\* with a failing status, or it could not be run
FzfExits(list) ==
    { FzfOutcome("nil", 0, list[k] \o <<"\n">>, <<>>) : k \in 1..Len(list) }
    \cup { FzfOutcome("exit", code, <<>>, stderr) :
              code \in {1, 2, 130}, stderr \in {<<>>, <<"e">>} }
    \cup { FzfOutcome("other", 0, <<>>, <<>>) }

SelStart(entry, output, items, query, noFzf, fzfAvailable, index) ==
    [pc |-> "start", entry |-> entry, output |-> output, items |-> items,
     query |-> query, noFzf |-> noFzf, fzfAvailable |-> fzfAvailable,
     index |-> index,
     worktrees |-> <<>>,            \* gitx.List's result
     filtered |-> <<>>,             \* FilterByQuery's result
     ferr |-> NilError,             \* and its error
     viaQuery |-> FALSE,            \* selectWorktree was called by selectByQuery
     list |-> <<>>,                 \* the items handed to the strategy
     strategy |-> "none",           \* "fzf", "prompt" or "none"
     stderr |-> <<>>,               \* what this process printed on stderr
     reads |-> 0,                   \* reads from standard input
     subprocs |-> 0,                \* subprocesses started
     stdin |-> <<>>,                \* what the subprocess was given
     outcome |-> FzfOutcome("none", 0, <<>>, <<>>),   \* how the picker ended
     read |-> ReadResult(<<>>, FALSE),                \* what was read
     raw |-> Return(-1, NilError),  \* what the strategy returned
     idx |-> -1, err |-> NilError]  \* what the entry point returned

SelInit ==
    /\ \E output \in GitOutputs, query \in SelQueries,
          noFzf \in BOOLEAN, fzfAvailable \in BOOLEAN, index \in IndexFlags :
         \/ sel = SelStart("runGo", output, <<>>, query, noFzf, fzfAvailable, index)
         \/ /\ ~noFzf /\ index = -1
            /\ sel = SelStart("runOpen", output, <<>>, query, FALSE, fzfAvailable, -1)
         \/ /\ query = <<>> /\ index = -1
            /\ sel = SelStart("selectWorktree", <<>>,
                              createDisplayItems(parseWorktreePorcelain(output)),
                              <<>>, noFzf, fzfAvailable, -1)
    /\ flt = FltOff
    /\ sanPc = "off" /\ sanIn = <<>> /\ sanOut = <<>> /\ sanAgain = <<>>
    /\ fs = {} /\ resPc = "off" /\ resIn = NoArgs /\ resOut = NoResult
    /\ configEnv = NoFile /\ inUse = {} /\ proc = [p \in Procs |-> Idle]
    /\ ExtOff

\* the entry point returns
Finished(s, ret) ==
    [s EXCEPT !.pc = "done", !.idx = ret.idx, !.err = ret.err]

\* the strategy returned ret to selectWorktree's caller
StrategyReturned(s, ret) ==
    Finished([s EXCEPT !.raw = ret],
             IF s.viaQuery THEN selectByQueryReturn(s.filtered, ret) ELSE ret)

\* selectWorktree(list, prompt, noFzf), up to its return or its wait
CallSelectWorktree(s, list) ==
    LET c == selectWorktree(list, s.noFzf, s.fzfAvailable)
        t == [s EXCEPT !.list = list, !.strategy = c.strategy]
    IN  IF c.start.waits
        THEN [t EXCEPT !.pc = c.strategy,
                       !.stderr = c.start.stderr,
                       !.stdin = c.start.stdin,
                       !.subprocs = IF c.strategy = "fzf" THEN 1 ELSE 0]
        ELSE StrategyReturned(t, c.start.ret)

\* selectByQuery(items, query, noFzf), up to its return or its wait
selectByQuery(s) ==
    LET f == FilterByQuery(s.items, s.query)
        t == [s EXCEPT !.filtered = f.result, !.ferr = f.err, !.viaQuery = TRUE]
    IN  IF f.err # NilError THEN Finished(t, Return(0, NoMatchError(s.query)))
        ELSE IF Len(f.result) = 1 THEN Finished(t, Return(f.result[1].Index, NilError))
        ELSE CallSelectWorktree(t, filteredItems(f.result))

\* selectWorktreeIndex that refuses an index only beyond len(worktrees)
selectWorktreeIndexInclusive(s) ==
    IF s.index >= 0
    THEN IF s.index > Len(s.worktrees)
         THEN Finished(s, Return(0, IndexOutOfRangeError(s.index, Len(s.worktrees) - 1)))
         ELSE Finished(s, Return(s.index, NilError))
    ELSE IF s.query # <<>> THEN selectByQuery(s)
    ELSE CallSelectWorktree(s, s.items)

\* selectWorktreeIndex(worktrees, items, cfg, query)
selectWorktreeIndex(s) ==
    IF s.index >= 0
    THEN IF s.index >= Len(s.worktrees)
         THEN Finished(s, Return(0, IndexOutOfRangeError(s.index, Len(s.worktrees) - 1)))
         ELSE Finished(s, Return(s.index, NilError))
    ELSE IF s.query # <<>> THEN selectByQuery(s)
    ELSE CallSelectWorktree(s, s.items)

\* selectWorktreeByQueryOrInteractive(items, query, prompt)
selectWorktreeByQueryOrInteractive(s) ==
    IF s.query # <<>> THEN selectByQuery(s) ELSE CallSelectWorktree(s, s.items)

\* gitx.List and createDisplayItems, at the start of wt go / open / clean
Listed(s) ==
    LET worktrees == parseWorktreePorcelain(s.output)
    IN  [s EXCEPT !.worktrees = worktrees, !.items = createDisplayItems(worktrees)]

\* wt go [query] [--index n] [--no-fzf]
RunGo ==
    /\ sel.pc = "start" /\ sel.entry = "runGo"
    /\ sel' = IF Len(Listed(sel).worktrees) = 0
              THEN Finished(Listed(sel), Return(-1, NoWorktreesError))
              ELSE selectWorktreeIndex(Listed(sel))
    /\ UNCHANGED <<flt, fs, sanVars, resVars, cmdVars, extVars>>

\* wt open [query]; wt clean [query] selects the same way
RunOpen ==
    /\ sel.pc = "start" /\ sel.entry = "runOpen"
    /\ sel' = IF Len(Listed(sel).worktrees) = 0
              THEN Finished(Listed(sel), Return(-1, NoWorktreesError))
              ELSE selectWorktreeByQueryOrInteractive(Listed(sel))
    /\ UNCHANGED <<flt, fs, sanVars, resVars, cmdVars, extVars>>

\* selectWorktree(items, prompt, noFzf) on a list of items
SelectWorktree ==
    /\ sel.pc = "start" /\ sel.entry = "selectWorktree"
    /\ sel' = CallSelectWorktree(sel, sel.items)
    /\ UNCHANGED <<flt, fs, sanVars, resVars, cmdVars, extVars>>

\* cmd.Run() returns: SelectWithFzf goes on to its return
FzfExit ==
    /\ sel.pc = "fzf"
    /\ \E outcome \in FzfExits(sel.list) :
         sel' = StrategyReturned([sel EXCEPT !.outcome = outcome],
                                 SelectWithFzfFinish(sel.list, outcome))
    /\ UNCHANGED <<flt, fs, sanVars, resVars, cmdVars, extVars>>

\* reader.ReadString returns: SelectWithPrompt goes on to its return
PromptRead ==
    /\ sel.pc = "prompt"
    /\ \E read \in PromptReads :
         sel' = StrategyReturned([sel EXCEPT !.read = read, !.reads = 1],
                                 SelectWithPromptFinish(sel.list, read))
    /\ UNCHANGED <<flt, fs, sanVars, resVars, cmdVars, extVars>>

SelNext == RunGo \/ RunOpen \/ SelectWorktree \/ FzfExit \/ PromptRead

SpecSelect == SelInit /\ [][SelNext]_vars

(***************************************************************************)
(* internal/config: the setters, Save and Reset                            *)
(***************************************************************************)
\* what a method of *Config returns and leaves in the receiver: "" is nil
Outcome(c, err) == [c |-> c, err |-> err]

SetDirectoryFormat(c, format) ==
    IF format # DirectoryFormatSubdirectory /\ format # DirectoryFormatSibling
    THEN Outcome(c, "invalid value for directory_format")
    ELSE Outcome([c EXCEPT !.DirectoryFormat = format], "")

SetSubdirectoryPrefix(c, prefix) ==
    Outcome([c EXCEPT !.SubdirectoryPrefix = prefix], "")

\* SetSubdirectorySuffix that stores the suffix before it checks it
SetSubdirectorySuffixStoresFirst(c, suffix) ==
    IF suffix # <<>> /\ suffix[1] # "-"
    THEN Outcome([c EXCEPT !.SubdirectorySuffix = suffix],
                 "subdirectory_suffix must start with '-'")
    ELSE Outcome([c EXCEPT !.SubdirectorySuffix = suffix], "")

SetSubdirectorySuffix(c, suffix) ==
    IF suffix # <<>> /\ suffix[1] # "-"
    THEN Outcome(c, "subdirectory_suffix must start with '-'")
    ELSE Outcome([c EXCEPT !.SubdirectorySuffix = suffix], "")

\* yaml.Marshal that leaves out the keys whose value is empty
MarshalOmitEmpty(c) ==
    [k \in {f \in DOMAIN c : f = "DirectoryFormat" \/ c[f] # <<>>} |-> c[k]]

\* yaml.Marshal(c): the three keys of worktree, each with its value
Marshal(c) == [k \in DOMAIN c |-> c[k]]

\* Save without the validation
SaveUnvalidated(c, file) ==
    [file |-> FileWith(Marshal(c)), err |-> ""]

\* c.Save() with this file at c.path: the file afterwards and the error
Save(c, file) ==
    IF Validate(c) # "" THEN [file |-> file, err |-> Validate(c)]
    ELSE [file |-> FileWith(Marshal(c)), err |-> ""]

\* c.Reset(): the file is removed if there is one
Reset(c, file) ==
    IF ~file.exists THEN [file |-> file, err |-> ""]
    ELSE [file |-> NoFile, err |-> ""]

(***************************************************************************)
(* Specification of the configuration package: one configuration path,     *)
(* one *Config variable, and calls of Load, the setters, Save and Reset in *)
(* any order.  The file system does not fail.                              *)
(***************************************************************************)
MaxConfigCalls == 4

\* what may be at the path at the start: nothing, or a file written by hand
ConfFiles ==
    { NoFile,
      FileWith(<<>>),
      FileWith([DirectoryFormat |-> DirectoryFormatSibling]),
      FileWith([SubdirectorySuffix |-> <<>>]),
      FileWith([SubdirectoryPrefix |-> <<"_">>, SubdirectorySuffix |-> <<"-", "x">>]),
      FileWith([DirectoryFormat |-> "flat"]),
      FileWith([DirectoryFormat |-> ""]),
      FileWith([SubdirectorySuffix |-> <<"w", "t">>]),
      [pathOk |-> TRUE, exists |-> TRUE, parses |-> FALSE, keys |-> <<>>] }

\* the arguments given to the setters
FormatValues == {DirectoryFormatSubdirectory, DirectoryFormatSibling, "flat", ""}
PrefixValues == {<<".">>, <<>>}
SuffixValues == {<<"-", "w", "t">>, <<>>, <<"w", "t">>}

\* the Config values written as literals: two valid ones, two invalid ones
LiteralConfigs ==
    { [DirectoryFormat |-> DirectoryFormatSibling, SubdirectoryPrefix |-> <<>>,
       SubdirectorySuffix |-> <<>>],
      [DirectoryFormat |-> DirectoryFormatSubdirectory, SubdirectoryPrefix |-> <<"_">>,
       SubdirectorySuffix |-> <<"-", "x">>],
      [DirectoryFormat |-> "flat", SubdirectoryPrefix |-> <<".">>,
       SubdirectorySuffix |-> <<"-", "w", "t">>],
      [DirectoryFormat |-> DirectoryFormatSibling, SubdirectoryPrefix |-> <<".">>,
       SubdirectorySuffix |-> <<"w", "t">>] }

\* the last call: its name, its argument, its error, and the Config value
\* and the file as they were before it
NoCall == [op |-> "none", arg |-> <<>>, err |-> "", before |-> NilConfig,
           fileBefore |-> NoFile]
Call(op, arg, err, before, fileBefore) ==
    [op |-> op, arg |-> arg, err |-> err, before |-> before,
     fileBefore |-> fileBefore]

ConfInit ==
    /\ \E file \in ConfFiles :
         conf = [pc |-> "run", file |-> file,
                 hasC |-> FALSE, c |-> NilConfig,   \* the *Config variable
                 loaded |-> [cfg |-> NilConfig, err |-> ""],
                 last |-> NoCall, calls |-> 0,
                 fresh |-> ~file.exists,   \* no file at the start
                 saved |-> <<>>,           \* the last Config saved successfully
                 reset |-> FALSE]          \* Reset was called after that
    /\ cln = ClnOff /\ pr = PrOff /\ tmx = TmxOff
    /\ flt = FltOff /\ sel = SelOff
    /\ sanPc = "off" /\ sanIn = <<>> /\ sanOut = <<>> /\ sanAgain = <<>>
    /\ fs = {} /\ resPc = "off" /\ resIn = NoArgs /\ resOut = NoResult
    /\ configEnv = NoFile /\ inUse = {} /\ proc = [p \in Procs |-> Idle]

ConfReady == conf.pc = "run" /\ conf.calls < MaxConfigCalls

\* cfg, err := config.Load(path)
ConfLoad ==
    /\ ConfReady
    /\ LET r == Load(conf.file)
       IN  conf' = [conf EXCEPT !.loaded = r, !.hasC = (r.err = ""), !.c = r.cfg,
                                !.calls = @ + 1,
                                !.last = Call("Load", <<>>, r.err, conf.c, conf.file)]
    /\ UNCHANGED <<baseVars, cln, pr, tmx>>

\* cfg := &Config{Worktree: WorktreeConfig{...}, path: path}
ConfLiteral ==
    /\ ConfReady
    /\ \E c \in LiteralConfigs :
         conf' = [conf EXCEPT !.hasC = TRUE, !.c = c, !.calls = @ + 1,
                      !.last = Call("Literal", <<>>, "", conf.c, conf.file)]
    /\ UNCHANGED <<baseVars, cln, pr, tmx>>

\* a setter returned r
AfterSetter(op, arg, r) ==
    conf' = [conf EXCEPT !.c = r.c, !.calls = @ + 1,
                         !.last = Call(op, arg, r.err, conf.c, conf.file)]

ConfSetDirectoryFormat ==
    /\ ConfReady /\ conf.hasC
    /\ \E v \in FormatValues :
         AfterSetter("SetDirectoryFormat", v, SetDirectoryFormat(conf.c, v))
    /\ UNCHANGED <<baseVars, cln, pr, tmx>>

ConfSetSubdirectoryPrefix ==
    /\ ConfReady /\ conf.hasC
    /\ \E v \in PrefixValues :
         AfterSetter("SetSubdirectoryPrefix", v, SetSubdirectoryPrefix(conf.c, v))
    /\ UNCHANGED <<baseVars, cln, pr, tmx>>

ConfSetSubdirectorySuffix ==
    /\ ConfReady /\ conf.hasC
    /\ \E v \in SuffixValues :
         AfterSetter("SetSubdirectorySuffix", v, SetSubdirectorySuffix(conf.c, v))
    /\ UNCHANGED <<baseVars, cln, pr, tmx>>

ConfSave ==
    /\ ConfReady /\ conf.hasC
    /\ LET r == Save(conf.c, conf.file)
       IN  conf' = [conf EXCEPT !.file = r.file, !.calls = @ + 1,
                        !.last = Call("Save", <<>>, r.err, conf.c, conf.file),
                        !.saved = IF r.err = "" THEN <<conf.c>> ELSE @,
                        !.reset = IF r.err = "" THEN FALSE ELSE @]
    /\ UNCHANGED <<baseVars, cln, pr, tmx>>

ConfReset ==
    /\ ConfReady /\ conf.hasC
    /\ LET r == Reset(conf.c, conf.file)
       IN  conf' = [conf EXCEPT !.file = r.file, !.calls = @ + 1,
                        !.last = Call("Reset", <<>>, r.err, conf.c, conf.file),
                        !.reset = IF r.err = "" THEN TRUE ELSE @]
    /\ UNCHANGED <<baseVars, cln, pr, tmx>>

ConfNext ==
    \/ ConfLoad \/ ConfLiteral
    \/ ConfSetDirectoryFormat \/ ConfSetSubdirectoryPrefix \/ ConfSetSubdirectorySuffix
    \/ ConfSave \/ ConfReset

SpecConfig == ConfInit /\ [][ConfNext]_vars

(***************************************************************************)
(* internal/cli/clean.go: wt clean                                         *)
(***************************************************************************)
NoRemovableWorktreesError ==
    <<"no removable worktrees found (main worktree cannot be removed)">>
WorktreeRemovalCancelledError == <<"worktree removal cancelled">>

\* what a git subprocess run in a directory gave: its output, or a failure
GitResult(ok, output) == [ok |-> ok, output |-> output]

\* getMainWorktreeRoot: the value of the first "worktree" line from line i on
RECURSIVE getMainWorktreeRoot(_, _)
getMainWorktreeRoot(lines, i) ==
    IF i > Len(lines)
    THEN [Root |-> <<>>, err |-> <<"could not find main worktree in output">>]
    ELSE IF Len(lines[i]) >= 2 /\ lines[i][1] = "worktree"
    THEN [Root |-> lines[i][2], err |-> NilError]
    ELSE getMainWorktreeRoot(lines, i + 1)

\* gitx.GetRepo(ctx, dir): git is run in dir
GetRepo(dir) ==
    LET main == getMainWorktreeRoot(dir.output, 1)
    IN  IF ~dir.ok
        THEN [Root |-> <<>>, err |-> <<"not in a git repository: ", "git rev-parse failed">>]
        ELSE IF main.err # NilError
        THEN [Root |-> <<>>, err |-> <<"failed to get main worktree root: ">> \o main.err]
        ELSE main

\* what getRemovableWorktrees returns
Removable(validWorktrees, items, err) ==
    [validWorktrees |-> validWorktrees, items |-> items, err |-> err]

\* the loop over the worktrees, from the i-th on
RECURSIVE removableLoop(_, _, _, _)
removableLoop(worktrees, i, root, acc) ==
    IF i > Len(worktrees) THEN acc
    ELSE LET wt == worktrees[i]
         IN  IF wt.Path = root
             THEN removableLoop(worktrees, i + 1, root, acc)
             ELSE removableLoop(worktrees, i + 1, root,
                      Removable(Append(acc.validWorktrees, wt),
                                Append(acc.items, formatBranch(wt) \o <<"\t">> \o wt.Path),
                                NilError))

\* getRemovableWorktrees: list is git's answer in the current directory,
\* repoDir its answer in the directory --repo names
getRemovableWorktrees(list, repoDir) ==
    LET worktrees == parseWorktreePorcelain(list.output)
        repo == GetRepo(repoDir)
        r == removableLoop(worktrees, 1, repo.Root, Removable(<<>>, <<>>, NilError))
    IN  IF ~list.ok
        THEN Removable(<<>>, <<>>, <<"failed to get worktrees: ", "git worktree failed">>)
        ELSE IF Len(worktrees) = 0 THEN Removable(<<>>, <<>>, NoWorktreesError)
        ELSE IF repo.err # NilError
        THEN Removable(<<>>, <<>>, <<"failed to get repository information: ">> \o repo.err)
        ELSE IF Len(r.validWorktrees) = 0
        THEN Removable(<<>>, <<>>, NoRemovableWorktreesError)
        ELSE r

\* confirm that takes an unreadable answer for what was read so far
confirmIgnoresReadError(read) ==
    LET input == TrimSpace(ToLower(read.line))
    IN  input = <<"y">> \/ input = <<"y", "e", "s">>

\* confirm(message), given what reader.ReadString('\n') returned
confirm(read) ==
    IF read.failed THEN FALSE
    ELSE LET input == TrimSpace(ToLower(read.line))
         IN  input = <<"y">> \/ input = <<"y", "e", "s">>

\* a call of git that changes the repository
GitCall(cmd, target, force, ok) ==
    [cmd |-> cmd, target |-> target, force |-> force, ok |-> ok]

\* runCleanWithConfig returns err
CleanDone(c, err) == [c EXCEPT !.pc = "done", !.err = err]

\* gitx.Prune (its error is ignored) and the return of nil
CleanPruned(c) ==
    CleanDone([c EXCEPT !.calls = Append(@, GitCall("worktree prune", <<>>, FALSE, TRUE))],
              NilError)

\* lines 89-103, once the selection s has moved: to its wait, to the
\* return of its error, or on to the confirmation or the removal
CleanSelected(c, s) ==
    LET t == [c EXCEPT !.sel = s]
    IN  IF s.pc # "done" THEN [t EXCEPT !.pc = s.pc]
        ELSE IF s.err # NilError THEN CleanDone(t, s.err)
        ELSE [t EXCEPT !.selectedIndex = s.idx,
                       !.selected = PointerTo(c.validWorktrees[s.idx + 1]),
                       !.pc = IF c.yes THEN "remove" ELSE "confirmRemoval"]

\* handleBranchDeletion up to the call of gitx.IsUsingBranch
handleBranchDeletion(c) ==
    IF c.keepBranch \/ c.selected[1].Branch = <<>> THEN CleanPruned(c)
    ELSE [c EXCEPT !.pc = "usage"]

\* gitx.IsUsingBranch's loop over the worktrees listed
IsUsingBranch(worktrees, branch, excludePath) ==
    \E i \in 1..Len(worktrees) :
        worktrees[i].Branch = branch /\ worktrees[i].Path # excludePath

\* the blocks git lists once the worktree at path is gone
RECURSIVE WithoutWorktree(_, _)
WithoutWorktree(blocks, path) ==
    IF Len(blocks) = 0 THEN <<>>
    ELSE IF blocks[1][1][2] = path THEN WithoutWorktree(Tail(blocks), path)
    ELSE <<blocks[1]>> \o WithoutWorktree(Tail(blocks), path)

(***************************************************************************)
(* Specification of wt clean [query] [--force] [--keep-branch] [--yes]     *)
(* [--repo dir]: git's worktrees in the current directory, what git says   *)
(* in the directory --repo names, and the answers of the user.             *)
(***************************************************************************)
\* the worktrees of the repository of the current directory, main first
CleanRepos ==
    { <<>>,
      << BlockBranch(<<"/","r">>, <<"1">>, <<"m">>) >>,
      << BlockBranch(<<"/","r">>, <<"1">>, <<"m">>),
         BlockBranch(<<"/","a">>, <<"2">>, <<"a">>) >>,
      << BlockBranch(<<"/","r">>, <<"1">>, <<"m">>),
         BlockBranch(<<"/","a">>, <<"2">>, <<"a">>),
         BlockBranch(<<"/","b">>, <<"3">>, <<"A","b">>) >>,
      << BlockBranch(<<"/","r">>, <<"1">>, <<"m">>),
         BlockBranch(<<"/","a">>, <<"2">>, <<"a">>),
         BlockBranch(<<"/","c">>, <<"2">>, <<"a">>) >>,
      << BlockBranch(<<"/","r">>, <<"1">>, <<"m">>),
         BlockDetached(<<"/","d">>, <<"4","5","6","7","8","9","0","1">>),
         BlockBranch(<<"/","a">>, <<"2">>, <<"a">>) >> }

\* --repo: not given, a directory of the same repository, a directory of
\* another repository, a directory outside every repository
RepoFlags == {"", "same", "other", "none"}

\* what git answers in the directory --repo names ("" is the current one)
RunGitInDir(flagRepo, blocks) ==
    IF flagRepo = "none" THEN GitResult(FALSE, <<>>)
    ELSE IF flagRepo = "other"
    THEN GitResult(TRUE, Flatten(<< BlockBranch(<<"/","o">>, <<"7">>, <<"m">>) >>))
    ELSE GitResult(TRUE, Flatten(blocks))

CleanQueries == { <<>>, <<"a">>, <<"x">> }

\* the answers to a (y/N) question, and the end of input
ConfirmReads ==
    { ReadResult(line \o <<"\n">>, FALSE) : line \in
        { <<"y">>, <<" ","Y","e","s"," ">>, <<"n">>, <<>>, <<"y","e">> } }
    \cup { ReadResult(<<"y">>, TRUE) }

NoRead == <<>>

CleanInit ==
    /\ \E blocks \in CleanRepos, flagRepo \in RepoFlags, query \in CleanQueries,
          force \in BOOLEAN, keepBranch \in BOOLEAN, yes \in BOOLEAN,
          fzfAvailable \in BOOLEAN :
         cln = [pc |-> "start", blocks |-> blocks, flagRepo |-> flagRepo,
                query |-> query, force |-> force, keepBranch |-> keepBranch,
                yes |-> yes, fzfAvailable |-> fzfAvailable,
                listed |-> <<>>,            \* gitx.List's result
                repo |-> GetRepo(GitResult(FALSE, <<>>)),   \* gitx.GetRepo's
                validWorktrees |-> <<>>, items |-> <<>>,
                sel |-> SelOff,             \* the selection
                selectedIndex |-> -1, selected |-> NoCurrent,
                removalAnswer |-> NoRead,   \* what the three questions read
                branchAnswer |-> NoRead,
                forceAnswer |-> NoRead,
                branchInUse |-> FALSE,      \* gitx.IsUsingBranch's result
                branchMerged |-> <<>>,      \* whether the branch is merged, once asked
                mergedFailed |-> FALSE,     \* gitx.IsBranchMerged failed
                forceDelete |-> FALSE,
                calls |-> <<>>,             \* the calls of git that change the repository
                err |-> NilError]
    /\ conf = ConfOff /\ pr = PrOff /\ tmx = TmxOff
    /\ flt = FltOff /\ sel = SelOff
    /\ sanPc = "off" /\ sanIn = <<>> /\ sanOut = <<>> /\ sanAgain = <<>>
    /\ fs = {} /\ resPc = "off" /\ resIn = NoArgs /\ resOut = NoResult
    /\ configEnv = NoFile /\ inUse = {} /\ proc = [p \in Procs |-> Idle]

\* runCleanWithConfig up to the selection's wait or beyond
RunClean ==
    /\ cln.pc = "start"
    /\ LET list == GitResult(TRUE, Flatten(cln.blocks))
           repoDir == RunGitInDir(cln.flagRepo, cln.blocks)
           r == getRemovableWorktrees(list, repoDir)
           c == [cln EXCEPT !.listed = parseWorktreePorcelain(list.output),
                            !.repo = IF Len(parseWorktreePorcelain(list.output)) = 0
                                     THEN @ ELSE GetRepo(repoDir),
                            !.validWorktrees = r.validWorktrees,
                            !.items = r.items]
           s == [SelStart("runClean", list.output, r.items, cln.query,
                          FALSE, cln.fzfAvailable, -1)
                   EXCEPT !.worktrees = r.validWorktrees]
       IN  cln' = IF r.err # NilError THEN CleanDone(c, r.err)
                  ELSE CleanSelected(c, selectWorktreeByQueryOrInteractive(s))
    /\ UNCHANGED <<baseVars, conf, pr, tmx>>

\* cmd.Run() of the picker returns
CleanFzfExit ==
    /\ cln.pc = "fzf"
    /\ \E outcome \in FzfExits(cln.sel.list) :
         cln' = CleanSelected(cln,
                    StrategyReturned([cln.sel EXCEPT !.outcome = outcome],
                                     SelectWithFzfFinish(cln.sel.list, outcome)))
    /\ UNCHANGED <<baseVars, conf, pr, tmx>>

\* the numbered prompt's read returns
CleanPromptRead ==
    /\ cln.pc = "prompt"
    /\ \E read \in PromptReads :
         cln' = CleanSelected(cln,
                    StrategyReturned([cln.sel EXCEPT !.read = read, !.reads = 1],
                                     SelectWithPromptFinish(cln.sel.list, read)))
    /\ UNCHANGED <<baseVars, conf, pr, tmx>>

\* confirmRemoval: the answer to "Are you sure?" is read
CleanConfirmRemoval ==
    /\ cln.pc = "confirmRemoval"
    /\ \E read \in ConfirmReads :
         cln' = IF confirm(read)
                THEN [cln EXCEPT !.removalAnswer = <<read>>, !.pc = "remove"]
                ELSE CleanDone([cln EXCEPT !.removalAnswer = <<read>>],
                               WorktreeRemovalCancelledError)
    /\ UNCHANGED <<baseVars, conf, pr, tmx>>

\* removeWorktree: git worktree remove [--force] path returns; git refuses
\* to remove the main working tree.  On success handleBranchDeletion starts.
CleanRemove ==
    /\ cln.pc = "remove"
    /\ \E ok \in BOOLEAN :
         /\ ok => cln.selected[1].Path # cln.blocks[1][1][2]
         /\ LET wt == cln.selected[1]
                c == [cln EXCEPT !.calls = Append(@, GitCall("worktree remove", wt.Path,
                                                             cln.force, ok)),
                                 !.blocks = IF ok THEN WithoutWorktree(@, wt.Path) ELSE @]
            IN  cln' = IF ~ok
                       THEN CleanDone(c, <<"failed to remove worktree: ", "git worktree failed">>)
                       ELSE handleBranchDeletion(c)
    /\ UNCHANGED <<baseVars, conf, pr, tmx>>

\* handleBranchDeletion: gitx.IsUsingBranch returns
CleanIsUsingBranch ==
    /\ cln.pc = "usage"
    /\ \E ok \in BOOLEAN :
         LET wt == cln.selected[1]
             used == IsUsingBranch(parseWorktreePorcelain(Flatten(cln.blocks)),
                                   wt.Branch, wt.Path)
         IN  cln' = IF ~ok
                    THEN CleanDone(cln, <<"failed to check branch usage: ", "git worktree failed">>)
                    ELSE IF used THEN CleanPruned([cln EXCEPT !.branchInUse = TRUE])
                    ELSE [cln EXCEPT !.pc = IF cln.yes THEN "merged" ELSE "confirmBranch"]
    /\ UNCHANGED <<baseVars, conf, pr, tmx>>

\* handleBranchDeletion: the answer to "Also delete branch ...?" is read
CleanConfirmBranch ==
    /\ cln.pc = "confirmBranch"
    /\ \E read \in ConfirmReads :
         cln' = IF confirm(read)
                THEN [cln EXCEPT !.branchAnswer = <<read>>, !.pc = "merged"]
                ELSE CleanPruned([cln EXCEPT !.branchAnswer = <<read>>])
    /\ UNCHANGED <<baseVars, conf, pr, tmx>>

\* shouldForceDeleteBranch: gitx.IsBranchMerged returns, the branch being
\* merged or not, the check having worked or not
CleanIsBranchMerged ==
    /\ cln.pc = "merged"
    /\ \E isMerged \in BOOLEAN, ok \in BOOLEAN :
         LET merged == ok /\ isMerged
             c == [cln EXCEPT !.branchMerged = <<isMerged>>, !.mergedFailed = ~ok]
         IN  cln' = IF merged THEN [c EXCEPT !.forceDelete = FALSE, !.pc = "delete"]
                    ELSE IF cln.yes THEN [c EXCEPT !.forceDelete = TRUE, !.pc = "delete"]
                    ELSE [c EXCEPT !.pc = "confirmForce"]
    /\ UNCHANGED <<baseVars, conf, pr, tmx>>

\* shouldForceDeleteBranch: the answer to "Force delete?" is read
CleanConfirmForce ==
    /\ cln.pc = "confirmForce"
    /\ \E read \in ConfirmReads :
         cln' = IF confirm(read)
                THEN [cln EXCEPT !.forceAnswer = <<read>>, !.forceDelete = TRUE,
                                 !.pc = "delete"]
                ELSE CleanPruned([cln EXCEPT !.forceAnswer = <<read>>])
    /\ UNCHANGED <<baseVars, conf, pr, tmx>>

\* gitx.DeleteBranch: git branch -d / -D returns
CleanDeleteBranch ==
    /\ cln.pc = "delete"
    /\ \E ok \in BOOLEAN :
         LET c == [cln EXCEPT !.calls = Append(@, GitCall("branch delete",
                                   cln.selected[1].Branch, cln.forceDelete, ok))]
         IN  cln' = IF ~ok
                    THEN CleanDone(c, <<"failed to delete branch: ", "git branch failed">>)
                    ELSE CleanPruned(c)
    /\ UNCHANGED <<baseVars, conf, pr, tmx>>

CleanNext ==
    \/ RunClean \/ CleanFzfExit \/ CleanPromptRead \/ CleanConfirmRemoval
    \/ CleanRemove \/ CleanIsUsingBranch \/ CleanConfirmBranch
    \/ CleanIsBranchMerged \/ CleanConfirmForce \/ CleanDeleteBranch

SpecClean == CleanInit /\ [][CleanNext]_vars

(***************************************************************************)
(* wt pr (runPRWithConfig) and internal/ghx                                *)
(***************************************************************************)
ShellFunctionNotConfiguredError ==
    <<"Cannot change directory: shell function not configured.">>
GhNotFoundError == <<"GitHub CLI (gh) not found">>
InvalidPRNumberError(input) == <<"invalid PR number: ">> \o input

\* validatePRNumber: the number, or the error
validatePRNumber(input) ==
    LET n == Atoi(input)
    IN  IF ~n.ok THEN [num |-> 0, text |-> <<>>, err |-> InvalidPRNumberError(input)]
        ELSE IF n.num <= 0
        THEN [num |-> 0, text |-> <<>>, err |-> InvalidPRNumberError(input)]
        ELSE [num |-> n.num, text |-> n.text, err |-> NilError]

\* the struct ghx.PRInfo
PRInfo(headRefName, headOwner, headRepo, isCrossRepository) ==
    [HeadRefName |-> headRefName, HeadOwner |-> headOwner, HeadRepo |-> headRepo,
     IsCrossRepository |-> isCrossRepository]

\* FindWorktreeByBranch that compares the path with the branch name
RECURSIVE FindWorktreeByPath(_, _)
FindWorktreeByPath(worktrees, branch) ==
    IF Len(worktrees) = 0 THEN NoCurrent
    ELSE IF worktrees[1].Path = branch THEN PointerTo(worktrees[1])
    ELSE FindWorktreeByPath(Tail(worktrees), branch)

\* gitx.FindWorktreeByBranch's loop: the first worktree on the branch, or nil
RECURSIVE FindWorktreeByBranch(_, _)
FindWorktreeByBranch(worktrees, branch) ==
    IF Len(worktrees) = 0 THEN NoCurrent
    ELSE IF worktrees[1].Branch = branch THEN PointerTo(worktrees[1])
    ELSE FindWorktreeByBranch(Tail(worktrees), branch)

\* fmt.Sprintf("wt-pr-%d", prNumber)
TempRemoteName(text) == <<"wt-pr-">> \o text

\* determineRemote, given the remotes of the repository and whether
\* git remote add works; added tells that the remote was added
determineRemote(userRemote, prInfo, text, remotes, addOk) ==
    IF userRemote # <<>>
    THEN [remote |-> userRemote, tempRemote |-> <<>>, err |-> NilError, added |-> <<>>]
    ELSE IF prInfo.IsCrossRepository
    THEN IF prInfo.HeadOwner \notin remotes
         THEN IF ~addOk
              THEN [remote |-> <<>>, tempRemote |-> <<>>, added |-> <<>>,
                    err |-> <<"failed to add temporary remote: ", "failed to add remote: ",
                              "exit status 3">>]
              ELSE [remote |-> TempRemoteName(text), tempRemote |-> TempRemoteName(text),
                    err |-> NilError, added |-> TempRemoteName(text)]
         ELSE [remote |-> prInfo.HeadOwner, tempRemote |-> <<>>, err |-> NilError,
               added |-> <<>>]
    ELSE [remote |-> <<"origin">>, tempRemote |-> <<>>, err |-> NilError, added |-> <<>>]

\* runPRWithConfig returns err: nothing is deferred yet
PrDone(c, err) == [c EXCEPT !.pc = "done", !.err = err]

\* the return of runPRWithConfig that runs the deferred function on
\* success only
PrReturnCleanupOnSuccess(c, err, rmOk) ==
    IF c.tempRemote = <<>> \/ err # NilError THEN PrDone(c, err)
    ELSE PrDone([c EXCEPT !.calls = Append(@, GitCall("remote remove", c.tempRemote,
                                                      FALSE, rmOk)),
                          !.remotes = IF rmOk THEN @ \ {c.tempRemote} ELSE @],
                err)

\* runPRWithConfig returns err after line 416: the deferred function runs
\* ghx.RemoveRemote when a temporary remote was added, and ignores its error
PrReturn(c, err, rmOk) ==
    IF c.tempRemote = <<>> THEN PrDone(c, err)
    ELSE PrDone([c EXCEPT !.calls = Append(@, GitCall("remote remove", c.tempRemote,
                                                      FALSE, rmOk)),
                          !.remotes = IF rmOk THEN @ \ {c.tempRemote} ELSE @],
                err)

\* lines 358-384: the branch is in use by the worktree c.existingWT
PrExistingWorktree(c) ==
    LET path == c.existingWT[1].Path
    IN  IF c.cd
        THEN IF c.force
             THEN PrDone([c EXCEPT !.out = Append(@, path)], NilError)
             ELSE [c EXCEPT !.pc = "navigate",
                            !.out = IF c.quiet THEN @
                                    ELSE Append(@, <<"Branch '">> \o c.localBranch
                                           \o <<"' is already in use by worktree.">>)]
        ELSE PrDone([c EXCEPT !.out = @ \o
                       << <<"Branch '">> \o c.localBranch
                             \o <<"' is already in use by worktree: ">> \o path,
                          <<"Path: ">> \o path >>],
                    NilError)

(***************************************************************************)
(* Specification of wt pr <n> [--branch b] [--remote r] [--cd] [--force]:  *)
(* the flags and the repository's worktrees are drawn at the start; what   *)
(* gh, git, the filesystem and the user answer is drawn when asked.        *)
(***************************************************************************)
PrNumbers == { <<"1","2">>, <<"0">>, <<"x">> }
PrBranchFlags == { <<>>, <<"r","e","v">> }
PrRemoteFlags == { <<>>, <<"up">> }

\* the pull request's head: branch f of own/p
PrHeadRefName == <<"f">>
PrHeadOwner == <<"own">>

\* the worktrees of the repository
PrRepos ==
    { << BlockBranch(BaseDir \o <<"/">> \o RepoName, <<"1">>, <<"m">>) >>,
      << BlockBranch(BaseDir \o <<"/">> \o RepoName, <<"1">>, <<"m">>),
         BlockBranch(<<"/","a">>, <<"2">>, PrHeadRefName) >>,
      << BlockBranch(BaseDir \o <<"/">> \o RepoName, <<"1">>, <<"m">>),
         BlockDetached(<<"/","d">>, <<"4">>),
         BlockBranch(<<"/","b">>, <<"3">>, <<"r","e","v">>) >> }

\* the remotes the repository may have besides origin
PrRemotes == { {<<"origin">>} \cup extra :
                 extra \in SUBSET {PrHeadOwner, TempRemoteName(<<"1","2">>)} }

PrInit ==
    /\ \E number \in PrNumbers, branch \in PrBranchFlags, remote \in PrRemoteFlags,
          cd \in BOOLEAN, force \in BOOLEAN, quiet \in BOOLEAN,
          shellFunction \in BOOLEAN, blocks \in PrRepos :
         pr = [pc |-> "start", number |-> number, branch |-> branch,
                  remoteFlag |-> remote, cd |-> cd, force |-> force, quiet |-> quiet,
                  shellFunction |-> shellFunction,   \* WT_SHELL_FUNCTION is set
                  blocks |-> blocks,
                  prNumber |-> <<>>,             \* the number as %d prints it
                  prInfo |-> PRInfo(<<>>, <<>>, <<>>, FALSE),
                  localBranch |-> <<>>,
                  searched |-> FALSE,            \* FindWorktreeByBranch returned
                  existingWT |-> NoCurrent,
                  navigateAnswer |-> NoRead, useAnswer |-> NoRead,
                  remotes |-> {},                \* git's remotes, once asked
                  remote |-> <<>>, tempRemote |-> <<>>,
                  added |-> <<>>,                \* the remote this run added
                  worktreePath |-> <<>>,
                  failed |-> "",                 \* the step that failed
                  calls |-> <<>>,                \* git fetch and the calls that change the repository
                  out |-> <<>>,                  \* the lines written to w
                  err |-> NilError]
    /\ fs = RepoEntries
    /\ conf = ConfOff /\ cln = ClnOff /\ tmx = TmxOff
    /\ flt = FltOff /\ sel = SelOff
    /\ sanPc = "off" /\ sanIn = <<>> /\ sanOut = <<>> /\ sanAgain = <<>>
    /\ resPc = "off" /\ resIn = NoArgs /\ resOut = NoResult
    /\ configEnv = NoFile /\ inUse = {} /\ proc = [p \in Procs |-> Idle]

\* what every action of wt pr but the creation of the worktree leaves alone
PrUnchanged ==
    UNCHANGED <<sanVars, fs, resVars, cmdVars, selVars, conf, cln, tmx>>

\* runPRWithConfig up to the call of ghx.GetPRInfo
RunPR ==
    /\ pr.pc = "start"
    /\ \E ghAvailable \in BOOLEAN, inRepo \in BOOLEAN :
         LET n == validatePRNumber(pr.number)
             repo == GetRepo(GitResult(inRepo, Flatten(pr.blocks)))
         IN  pr' = IF pr.cd /\ ~pr.shellFunction
                   THEN PrDone(pr, ShellFunctionNotConfiguredError)
                   ELSE IF n.err # NilError THEN PrDone(pr, n.err)
                   ELSE IF ~ghAvailable THEN PrDone(pr, GhNotFoundError)
                   ELSE IF repo.err # NilError
                   THEN PrDone(pr, <<"failed to get repository info: ">> \o repo.err)
                   ELSE [pr EXCEPT !.prNumber = n.text, !.pc = "info"]
    /\ PrUnchanged

\* ghx.GetPRInfo returns; the local branch name is determined
PrGetPRInfo ==
    /\ pr.pc = "info"
    /\ \E ok \in BOOLEAN, cross \in BOOLEAN :
         LET prInfo == PRInfo(PrHeadRefName, PrHeadOwner, RepoName, cross)
         IN  pr' = IF ~ok
                   THEN PrDone(pr, <<"failed to get PR info: ", "gh pr view failed">>)
                   ELSE [pr EXCEPT !.prInfo = prInfo,
                                   !.localBranch = IF pr.branch = <<>>
                                                   THEN prInfo.HeadRefName ELSE pr.branch,
                                   !.pc = "find"]
    /\ PrUnchanged

\* gitx.FindWorktreeByBranch returns
PrFindWorktree ==
    /\ pr.pc = "find"
    /\ \E ok \in BOOLEAN :
         LET found == FindWorktreeByBranch(parseWorktreePorcelain(Flatten(pr.blocks)),
                                           pr.localBranch)
             c == [pr EXCEPT !.searched = TRUE, !.existingWT = found]
         IN  pr' = IF ~ok
                   THEN PrDone(pr, <<"failed to search worktrees: ", "git worktree failed">>)
                   ELSE IF found # NoCurrent THEN PrExistingWorktree(c)
                   ELSE [c EXCEPT !.pc = "exists"]
    /\ PrUnchanged

\* confirmNavigate: the answer to "Navigate to existing worktree?" is read
PrConfirmNavigate ==
    /\ pr.pc = "navigate"
    /\ \E read \in ConfirmReads :
         LET c == [pr EXCEPT !.navigateAnswer = <<read>>]
         IN  pr' = IF confirm(read)
                   THEN PrDone([c EXCEPT !.out = Append(@, pr.existingWT[1].Path)],
                               NilError)
                   ELSE PrDone(c, <<"operation cancelled">>)
    /\ PrUnchanged

\* gitx.BranchExists returns; confirmUseExisting assumes yes with --cd or
\* --quiet
PrBranchExists ==
    /\ pr.pc = "exists"
    /\ \E result \in {"yes", "no", "error"} :
         pr' = IF result = "error"
               THEN PrDone(pr, <<"failed to check if branch exists: ", "git show-ref failed">>)
               ELSE IF result = "yes" /\ ~pr.force /\ ~(pr.cd \/ pr.quiet)
               THEN [pr EXCEPT !.pc = "useExisting",
                               !.out = Append(@, <<"Branch '">> \o pr.localBranch
                                           \o <<"' already exists locally.">>)]
               ELSE [pr EXCEPT !.pc = "remote"]
    /\ PrUnchanged

\* confirmUseExisting: the answer to "Create new worktree using existing
\* branch?" is read
PrConfirmUseExisting ==
    /\ pr.pc = "useExisting"
    /\ \E read \in ConfirmReads :
         pr' = IF confirm(read)
               THEN [pr EXCEPT !.useAnswer = <<read>>, !.pc = "remote"]
               ELSE PrDone([pr EXCEPT !.useAnswer = <<read>>], <<"operation cancelled">>)
    /\ PrUnchanged

\* determineRemote returns, and the cleanup is deferred; git remote add
\* fails when the name is taken
PrDetermineRemote ==
    /\ pr.pc = "remote"
    /\ \E remotes \in PrRemotes, addOk \in BOOLEAN :
         /\ addOk => TempRemoteName(pr.prNumber) \notin remotes
         /\ LET r == determineRemote(pr.remoteFlag, pr.prInfo, pr.prNumber, remotes, addOk)
                tried == /\ pr.remoteFlag = <<>> /\ pr.prInfo.IsCrossRepository
                         /\ pr.prInfo.HeadOwner \notin remotes
                c == [pr EXCEPT !.remotes = IF r.added # <<>> THEN remotes \cup {r.added}
                                            ELSE remotes,
                                !.calls = IF tried
                                          THEN Append(@, GitCall("remote add",
                                                   TempRemoteName(pr.prNumber), FALSE, addOk))
                                          ELSE @,
                                !.remote = r.remote, !.tempRemote = r.tempRemote,
                                !.added = r.added]
            IN  pr' = IF r.err # NilError THEN PrDone(c, r.err)
                      ELSE [c EXCEPT !.pc = "fetch"]
    /\ PrUnchanged

\* ghx.FetchPRBranch returns
PrFetch ==
    /\ pr.pc = "fetch"
    /\ \E ok \in BOOLEAN, rmOk \in BOOLEAN :
         LET c == [pr EXCEPT !.calls = Append(@, GitCall("fetch", pr.remote, FALSE, ok))]
         IN  pr' = IF ~ok
                   THEN PrReturn([c EXCEPT !.failed = "fetch"],
                                 <<"failed to fetch PR branch: ", "git fetch failed">>, rmOk)
                   ELSE [c EXCEPT !.pc = "path"]
    /\ PrUnchanged

\* naming.Sanitize and naming.GenerateWorktreePath(repo.Parent, repo.Name,
\* sanitized) return.  The filesystem of this specification lists the
\* checkout and the worktrees made; taken says that entries it does not
\* list occupy every candidate path, so that the retry loop runs out.
PrGeneratePath ==
    /\ pr.pc = "path"
    /\ resIn' = [baseDir |-> BaseDir, repoName |-> RepoName,
                 sanitizedBranch |-> Sanitize(<<"p","r","-">> \o pr.prNumber \o <<"-">>
                                              \o pr.prInfo.HeadRefName),
                 cfg |-> EffectiveConfig(configEnv)]
    /\ \E taken \in BOOLEAN, rmOk \in BOOLEAN :
         /\ resOut' = IF taken THEN NotFound(maxAttempts - 1)
                       ELSE GenerateWorktreePath(resIn'.baseDir, resIn'.repoName,
                                                 resIn'.sanitizedBranch)
         /\ pr' = IF resOut'.err # ""
                   THEN PrReturn([pr EXCEPT !.failed = "path"],
                                 <<"failed to generate worktree path: ", resOut'.err>>, rmOk)
                   ELSE [pr EXCEPT !.worktreePath = resOut'.path, !.pc = "add"]
    /\ UNCHANGED <<sanVars, fs, resPc, cmdVars, selVars, conf, cln, tmx>>

\* gitx.Add returns, and runPRWithConfig after it
PrAdd ==
    /\ pr.pc = "add"
    /\ \E ok \in BOOLEAN, rmOk \in BOOLEAN :
         LET c == [pr EXCEPT !.calls = Append(@, GitCall("worktree add", pr.worktreePath,
                                                         FALSE, ok))]
         IN  /\ pr' = IF ~ok
                      THEN PrReturn([c EXCEPT !.failed = "add"],
                                    <<"failed to create worktree: ", "git worktree failed">>,
                                    rmOk)
                      ELSE PrReturn([c EXCEPT !.out = Append(@, pr.worktreePath)],
                                    NilError, rmOk)
             /\ fs' = IF ok THEN fs \cup WithParents(pr.worktreePath) ELSE fs
    /\ UNCHANGED <<sanVars, resVars, cmdVars, selVars, conf, cln, tmx>>

PrNext ==
    \/ RunPR \/ PrGetPRInfo \/ PrFindWorktree \/ PrConfirmNavigate
    \/ PrBranchExists \/ PrConfirmUseExisting \/ PrDetermineRemote
    \/ PrFetch \/ PrGeneratePath \/ PrAdd

SpecPr == PrInit /\ [][PrNext]_vars

(***************************************************************************)
(* internal/tmux: Manager.CreateSession                                    *)
(***************************************************************************)
maxRetries == 10

\* one call of m.executor.Run("tmux", cmd, ...): arg is the pane's
\* WorktreePath or the layout, ok tells that Run returned nil
TmuxCall(cmd, arg, ok) == [cmd |-> cmd, arg |-> arg, ok |-> ok]

\* CreateSession returns err
TmxDone(c, err) == [c EXCEPT !.pc = "done", !.err = err]

\* CreateSession from the layout on (lines 114-131), up to the next call
TmxFromLayout(c) ==
    IF c.Layout # "" THEN [c EXCEPT !.pc = "select-layout"]
    ELSE IF c.SyncPanes THEN [c EXCEPT !.pc = "set-window-option"]
    ELSE TmxDone(c, NilError)

\* CreateSession from the loop over the remaining panes on, at pane i
\* (counted from 0 as in the source), up to the next call
TmxFromSplit(c, i) ==
    IF i < Len(c.Panes) THEN [c EXCEPT !.pc = "split-window", !.i = i]
    ELSE TmxFromLayout(c)

\* the retry loop that polls once more than maxRetries allows
TmxPolledInclusive(c, exists) ==
    IF exists THEN TmxFromSplit(c, 1)
    ELSE IF c.i + 1 <= maxRetries THEN [c EXCEPT !.i = c.i + 1]
    ELSE TmxDone(c, <<"tmux session was not created after ">> \o Itoa(maxRetries)
                    \o <<" retries">>)

\* the retry loop (lines 94-103) after m.SessionExists() returned in
\* iteration c.i
TmxPolled(c, exists) ==
    IF exists THEN TmxFromSplit(c, 1)
    ELSE IF c.i + 1 < maxRetries THEN [c EXCEPT !.i = c.i + 1]
    ELSE TmxDone(c, <<"tmux session was not created after ">> \o Itoa(maxRetries)
                    \o <<" retries">>)

(***************************************************************************)
(* Specification of one CreateSession call: the configuration is drawn at  *)
(* the start, the result of each tmux command when it returns.             *)
(***************************************************************************)
MaxPanes == 3

\* the worktree paths of the panes
PanePaths == << <<"/","w","1">>, <<"/","w","2">>, <<"/","w","3">>, <<"/","w","4">>,
                <<"/","w","5">> >>

TmxLayouts == {"", "tiled"}

TmxInit ==
    /\ \E n \in 0..MaxPanes, layout \in TmxLayouts, sync \in BOOLEAN, debug \in BOOLEAN :
         /\ n <= Len(PanePaths)
         /\ tmx = [pc |-> "start", Panes |-> SubSeq(PanePaths, 1, n), Layout |-> layout,
                   SyncPanes |-> sync, Debug |-> debug,
                   i |-> 0,            \* the loop variable of the running loop
                   calls |-> <<>>,     \* the calls of the executor, in order
                   stderr |-> <<>>,    \* the warnings written
                   err |-> NilError]
    /\ conf = ConfOff /\ cln = ClnOff /\ pr = PrOff
    /\ flt = FltOff /\ sel = SelOff
    /\ sanPc = "off" /\ sanIn = <<>> /\ sanOut = <<>> /\ sanAgain = <<>>
    /\ fs = {} /\ resPc = "off" /\ resIn = NoArgs /\ resOut = NoResult
    /\ configEnv = NoFile /\ inUse = {} /\ proc = [p \in Procs |-> Idle]

\* CreateSession up to the return of tmux new-session
CreateSession ==
    /\ tmx.pc = "start"
    /\ \E ok \in BOOLEAN :
         LET c == [tmx EXCEPT !.calls = Append(@, TmuxCall("new-session",
                                                           tmx.Panes[1], ok))]
         IN  tmx' = IF Len(tmx.Panes) = 0
                    THEN TmxDone(tmx, <<"no panes to create session for">>)
                    ELSE IF ~ok
                    THEN TmxDone(c, <<"failed to create tmux session: ", "exit status 1">>)
                    ELSE [c EXCEPT !.pc = "has-session", !.i = 0]
    /\ UNCHANGED <<baseVars, conf, cln, pr>>

\* m.SessionExists(): tmux has-session returns
TmxHasSession ==
    /\ tmx.pc = "has-session"
    /\ \E ok \in BOOLEAN :
         tmx' = TmxPolled([tmx EXCEPT !.calls = Append(@, TmuxCall("has-session",
                                                                   <<>>, ok))], ok)
    /\ UNCHANGED <<baseVars, conf, cln, pr>>

\* tmux split-window for pane tmx.i returns
TmxSplitWindow ==
    /\ tmx.pc = "split-window"
    /\ \E ok \in BOOLEAN :
         LET c == [tmx EXCEPT !.calls = Append(@, TmuxCall("split-window",
                                                   tmx.Panes[tmx.i + 1], ok))]
         IN  tmx' = IF ~ok
                    THEN TmxDone(c, <<"failed to split window for pane ">> \o Itoa(tmx.i)
                                    \o <<": ", "exit status 1">>)
                    ELSE TmxFromSplit(c, tmx.i + 1)
    /\ UNCHANGED <<baseVars, conf, cln, pr>>

\* tmux select-layout returns: a failure is only logged, in debug mode
TmxSelectLayout ==
    /\ tmx.pc = "select-layout"
    /\ \E ok \in BOOLEAN :
         LET c == [tmx EXCEPT !.calls = Append(@, TmuxCall("select-layout",
                                                           tmx.Layout, ok)),
                              !.stderr = IF ~ok /\ tmx.Debug
                                         THEN Append(@, <<"Warning: failed to set layout '",
                                                          tmx.Layout, "': exit status 1">>)
                                         ELSE @]
         IN  tmx' = IF c.SyncPanes THEN [c EXCEPT !.pc = "set-window-option"]
                    ELSE TmxDone(c, NilError)
    /\ UNCHANGED <<baseVars, conf, cln, pr>>

\* tmux set-window-option synchronize-panes on returns
TmxSetWindowOption ==
    /\ tmx.pc = "set-window-option"
    /\ \E ok \in BOOLEAN :
         LET c == [tmx EXCEPT !.calls = Append(@, TmuxCall("set-window-option",
                                                           <<>>, ok))]
         IN  tmx' = IF ~ok
                    THEN TmxDone(c, <<"failed to enable synchronize-panes: ",
                                      "exit status 1">>)
                    ELSE TmxDone(c, NilError)
    /\ UNCHANGED <<baseVars, conf, cln, pr>>

TmxNext ==
    \/ CreateSession \/ TmxHasSession \/ TmxSplitWindow \/ TmxSelectLayout
    \/ TmxSetWindowOption

SpecTmux == TmxInit /\ [][TmxNext]_vars

(***************************************************************************)
(* Specification of one run of wt new, from the branch argument to the     *)
(* path handed to gitx.Add.  The caller position is kept in sanPc:         *)
(* "new" before validation, "rejected" or "validated" after it, "named"    *)
(* or "failed" after path generation, "added" after git worktree add.      *)
(***************************************************************************)
MaxNameLen == 3

\* the characters of the branch argument: a letter, the separators, a
\* character outside the allowed set, white space and a dot
NewAlphabet == {"a", "-", "/", ";", " ", "."}

NewNames == StringsUpTo(NewAlphabet, MaxNameLen)

\* the configurations the run may find: none, sibling mode, no prefix
NewConfigEnvs ==
    { NoFile,
      FileWith([DirectoryFormat |-> DirectoryFormatSibling]),
      FileWith([SubdirectoryPrefix |-> <<>>]) }

\* the directory that holds the worktrees in subdirectory mode
ContainerDir(cfg) ==
    JoinPath(<<BaseDir, cfg.SubdirectoryPrefix \o RepoName \o cfg.SubdirectorySuffix>>)

\* the repository alone, or the repository with an earlier worktree's
\* container next to it
NewFilesystems ==
    { RepoEntries } \cup
    { RepoEntries \cup WithParents(ContainerDir(EffectiveConfig(env))) :
          env \in NewConfigEnvs }

NewInit ==
    /\ sanPc = "new"
    /\ sanIn \in NewNames
    /\ sanOut = <<>> /\ sanAgain = <<>>
    /\ fs \in NewFilesystems
    /\ configEnv \in NewConfigEnvs
    /\ resPc = "off" /\ resIn = NoArgs /\ resOut = NoResult
    /\ inUse = {} /\ proc = [p \in Procs |-> Idle]
    /\ ExtOff
    /\ flt = FltOff /\ sel = SelOff

\* runNewWithConfig up to the validation of the branch argument
RunNew ==
    /\ sanPc = "new"
    /\ sanPc' = IF validateBranchName(sanIn) # "" THEN "rejected" ELSE "validated"
    /\ UNCHANGED <<sanIn, sanOut, sanAgain, fs, resVars, cmdVars, selVars, extVars>>

\* naming.Sanitize, then naming.GenerateWorktreePath on its result
NewGeneratePath ==
    /\ sanPc = "validated"
    /\ sanOut' = Sanitize(sanIn)
    /\ resIn' = [baseDir |-> BaseDir, repoName |-> RepoName,
                 sanitizedBranch |-> Sanitize(sanIn),
                 cfg |-> EffectiveConfig(configEnv)]
    /\ resOut' = GenerateWorktreePath(BaseDir, RepoName, Sanitize(sanIn))
    /\ sanPc' = IF GenerateWorktreePath(BaseDir, RepoName, Sanitize(sanIn)).err # ""
                THEN "failed" ELSE "named"
    /\ UNCHANGED <<sanIn, sanAgain, fs, resPc, cmdVars, selVars, extVars>>

\* the checks of the branch, then gitx.Add with the generated path; git
\* creates the worktree directory when it succeeds
NewWorktreeAdd ==
    /\ sanPc = "named"
    /\ \E ok \in BOOLEAN :
          /\ fs' = IF ok THEN fs \cup WithParents(resOut.path) ELSE fs
          /\ sanPc' = IF ok THEN "added" ELSE "failed"
    /\ UNCHANGED <<sanIn, sanOut, sanAgain, resVars, cmdVars, selVars, extVars>>

NewNext == RunNew \/ NewGeneratePath \/ NewWorktreeAdd

SpecNew == NewInit /\ [][NewNext]_vars

(***************************************************************************)
(* Sanitize: properties                                                    *)
(***************************************************************************)
SanDone == sanPc \in {"once", "twice"}

HasDoubleHyphen(s) == \E i \in 1..(Len(s) - 1) : s[i] = "-" /\ s[i + 1] = "-"

\* C8: every character of Sanitize(x) is in [A-Za-z0-9._-], the result
\* neither starts nor ends with '-', contains no '--' and is at most 200
\* characters long; an input without any allowed character gives "".
C8_SanitizeCharset ==
    SanDone =>
        /\ \A i \in 1..Len(sanOut) : sanOut[i] \in AllowedChars
        /\ sanOut # <<>> => sanOut[1] # "-" /\ sanOut[Len(sanOut)] # "-"
        /\ ~HasDoubleHyphen(sanOut)
        /\ Len(sanOut) <= maxLength
        /\ (\A i \in 1..Len(sanIn) : sanIn[i] \notin AllowedChars) => sanOut = <<>>

\* a branch name longer than the limit whose cut lands on a hyphen, and a
\* branch name made of disallowed characters only
C8_Witness ==
    /\ SanDone
    /\ \/ /\ Len(sanIn) > maxLength
          /\ sanIn[maxLength] = "-"
          /\ Len(sanOut) = maxLength - 1
       \/ /\ sanIn = <<";", "/", ";">>
          /\ sanOut = <<>>

\* C9: Sanitize is idempotent, Sanitize(Sanitize(x)) = Sanitize(x), also
\* for inputs that are truncated.
C9_SanitizeIdempotent == sanPc = "twice" => sanAgain = sanOut

\* a truncated input, sanitized twice
C9_Witness ==
    /\ sanPc = "twice"
    /\ Len(sanIn) > maxLength
    /\ sanIn[maxLength] = "-"
    /\ Len(sanOut) = maxLength - 1
    /\ sanAgain = sanOut

\* The reference steps of the specification, each stated position-wise
\* instead of by scanning.
KeepAt(s, keep) ==
    LET idx == SelectSeq([i \in 1..Len(s) |-> i], LAMBDA i : i \in keep)
    IN  [k \in 1..Len(idx) |-> s[idx[k]]]

RefSlash(s) == [i \in 1..Len(s) |-> IF s[i] = "/" THEN "-" ELSE s[i]]

\* each maximal run of disallowed characters becomes one '-': the first
\* character of a run is kept (as '-'), the others are dropped
RefRuns(s) ==
    LET t == [i \in 1..Len(s) |-> IF s[i] \in AllowedChars THEN s[i] ELSE "-"]
        first == {i \in 1..Len(s) :
                    s[i] \in AllowedChars \/ i = 1 \/ s[i - 1] \in AllowedChars}
    IN  KeepAt(t, first)

\* each run of '-' becomes one '-'
RefCollapse(s) ==
    KeepAt(s, {i \in 1..Len(s) : s[i] # "-" \/ i = 1 \/ s[i - 1] # "-"})

\* '-' removed at both ends
RefTrim(s) ==
    KeepAt(s, {i \in 1..Len(s) :
                 (\E j \in 1..i : s[j] # "-") /\ (\E j \in i..Len(s) : s[j] # "-")})

\* cut to 200 characters and '-' removed at the end
RefLimit(s) ==
    IF Len(s) <= maxLength THEN s
    ELSE LET c == [i \in 1..maxLength |-> s[i]]
         IN  KeepAt(c, {i \in 1..maxLength : \E j \in i..maxLength : c[j] # "-"})

RefSanitize(x) == RefLimit(RefTrim(RefCollapse(RefRuns(RefSlash(x)))))

\* C10: Sanitize(x) equals the reference steps applied in order, and the
\* documented examples come out as documented.
C10_SanitizeReference ==
    SanDone =>
        /\ sanOut = RefSanitize(sanIn)
        /\ sanIn = ExFeature =>
             sanOut = <<"f","e","a","t","u","r","e","-","n","e","w","-","u","i">>
        /\ sanIn = ExEvil => sanOut = <<"e","v","i","l","-","r","m","-","r","f">>
        /\ sanIn = ExSession =>
             sanOut = <<"s","e","s","s","i","o","n","-","n","a","m","e">>

\* the 'evil; rm -rf /' example has been sanitized
C10_Witness ==
    /\ SanDone
    /\ sanIn = ExEvil
    /\ sanOut = <<"e","v","i","l","-","r","m","-","r","f">>

(***************************************************************************)
(* The path resolver: properties (checked under SpecResolve)               *)
(***************************************************************************)
ResDone == resPc = "done"

\* candidate number n of the call's own arguments
Cn(n) == ExpectedPath(resIn.cfg, resIn.baseDir, resIn.repoName, resIn.sanitizedBranch, n)

InSubdirectoryMode == resIn.cfg.DirectoryFormat = DirectoryFormatSubdirectory
InSiblingMode == resIn.cfg.DirectoryFormat = DirectoryFormatSibling

\* C1: whenever the resolver returns a path, no filesystem entry exists at
\* that path at the moment of return (nothing else touches the filesystem
\* during the call).
C1_ReturnedPathUnoccupied ==
    (ResDone /\ resOut.err = "") => resOut.path \notin fs

\* a call that met a collision and returned a later, free candidate
C1_Witness ==
    /\ ResDone
    /\ resOut.err = ""
    /\ Cn(1) \in fs
    /\ Cn(2) \in fs
    /\ resOut.path \notin fs
    /\ resOut.checks = 3

\* C2: the path the resolver returns is the first unoccupied one of the
\* sequence c1, c2, c3, ... (the number goes on the label only; sibling mode
\* ignores prefix and suffix), it is c1 when c1 is unoccupied, and c2 when
\* only c1 is occupied.
C2_FirstUnoccupiedCandidate ==
    ResDone =>
        LET free == {n \in 1..(maxAttempts + 1) : Cn(n) \notin fs}
        IN  /\ resOut.err = "" => free # {} /\ resOut.path = Cn(MinOf(free))
            /\ Cn(1) \notin fs => resOut.err = "" /\ resOut.path = Cn(1)
            /\ (Cn(1) \in fs /\ Cn(2) \notin fs) =>
                   resOut.err = "" /\ resOut.path = Cn(2)

\* subdirectory mode with a prefix: c1 is occupied and the call returned c2,
\* a path inside the unchanged container
C2_Witness ==
    /\ ResDone
    /\ InSubdirectoryMode
    /\ resIn.cfg.SubdirectoryPrefix = <<".">>
    /\ resIn.sanitizedBranch = <<"a">>
    /\ Cn(1) \in fs
    /\ resOut.path = <<"/","w","/",".","p","-","w","t","/","a","-","2">>

\* C4: in sibling mode the resolver tries base/<project>-<label> and the
\* suffixes -2 through -100, and fails only when all of those 100 paths are
\* occupied.
C4_SiblingHundredAttempts ==
    (ResDone /\ InSiblingMode) =>
        /\ resOut.err # "" <=> \A n \in 1..100 : Cn(n) \in fs
        /\ resOut.checks <= 100

\* C5: in subdirectory mode the resolver fails with MaxAttemptsExceeded
\* exactly when <label> and <label>-2 .. <label>-99 are all occupied, and it
\* makes at most 99 existence checks.
C5_SubdirNinetyNineAttempts ==
    (ResDone /\ InSubdirectoryMode) =>
        /\ resOut.err = ErrMaxAttempts <=> \A n \in 1..99 : Cn(n) \in fs
        /\ resOut.err \in {"", ErrMaxAttempts}
        /\ resOut.err # "" => resOut.path = <<>>
        /\ resOut.checks <= 99

\* all 99 candidates occupied, number 100 free: the call failed after 99 checks
C5_Witness ==
    /\ ResDone
    /\ InSubdirectoryMode
    /\ \A n \in 1..99 : Cn(n) \in fs
    /\ Cn(100) \notin fs
    /\ resOut.err = ErrMaxAttempts
    /\ resOut.checks = 99

(***************************************************************************)
(* The commands: properties (checked under Spec)                           *)
(***************************************************************************)
Holding(p) == proc[p].pc \in {"resolved", "loopResolved"}

\* the paths the resolver has returned to process p, each one but the last
\* turned into a worktree before the next call
ReturnedTo(p) == proc[p].made \o (IF Holding(p) THEN <<proc[p].path>> ELSE <<>>)

\* C3: resolving paths one after another, with an entry created at each
\* returned path before the next call, yields pairwise distinct paths.
C3_SequentialPathsDistinct ==
    \A p \in Procs :
        \A i, j \in 1..Len(ReturnedTo(p)) :
            i # j => ReturnedTo(p)[i] # ReturnedTo(p)[j]

\* two worktrees made by one process from labels that collide: the second
\* path is the first with -2 appended
C3_Witness ==
    \E p \in Procs :
        /\ Len(proc[p].made) = 2
        /\ proc[p].made[2] = proc[p].made[1] \o <<"-", "2">>

\* C6: the resolver only probes: the step that returns a path leaves the
\* filesystem as it is and the returned path without an entry (so another
\* process can be handed the same path, or occupy it, before the caller
\* creates the worktree).
C6_ResolverOnlyProbes ==
    [][\A p \in Procs :
          (proc[p].pc \in {"idle", "loop"} /\ proc'[p].pc \in {"resolved", "loopResolved"})
              => (fs' = fs /\ proc'[p].path \notin fs')]_vars

\* the race: both processes resolved the same branch and were handed the
\* same path; the other one has created its worktree there while this one
\* still holds the path, not yet created
C6_Witness ==
    \E p, q \in Procs :
        /\ p # q
        /\ proc[p].pc = "resolved"
        /\ proc[p].branch = proc[q].branch
        /\ proc[q].made = <<proc[p].path>>
        /\ proc[p].path \in fs

\* the persisted configuration is malformed: directory_format is neither
\* 'subdirectory' nor 'sibling', or a non-empty suffix does not start with '-'
Malformed(env) ==
    /\ env.pathOk /\ env.exists /\ env.parses
    /\ \/ /\ "DirectoryFormat" \in DOMAIN env.keys
          /\ env.keys.DirectoryFormat \notin {"subdirectory", "sibling"}
       \/ /\ "SubdirectorySuffix" \in DOMAIN env.keys
          /\ env.keys.SubdirectorySuffix # <<>>
          /\ env.keys.SubdirectorySuffix[1] # "-"

\* C7 as stated: with a malformed configuration, resolving a worktree path
\* reports the configuration error and returns no path.
C7_ConfigErrorReported ==
    Malformed(configEnv) =>
        \A p \in Procs : ~Holding(p) /\ proc[p].made = <<>>

\* C7, amended: with a malformed configuration config.Load fails and
\* returns no configuration, but path resolution does not report it: it
\* uses the default settings, so every path it returns is a candidate of
\* the default layout, and it fails only when all of those are occupied.
C7_MalformedFallsBackToDefaults ==
    Malformed(configEnv) =>
        /\ Load(configEnv).err # ""
        /\ Load(configEnv).cfg = NilConfig
        /\ \A p \in Procs :
             LET Dn(n) == ExpectedPath(DefaultConfig, BaseDir, RepoName,
                                       Sanitize(proc[p].branch), n)
             IN  /\ Holding(p) => \E n \in 1..99 : proc[p].path = Dn(n)
                 /\ proc[p].err = "failed to generate worktree path"
                      => \A n \in 1..99 : Dn(n) \in fs

\* the file asks for sibling mode with a suffix that does not validate, and
\* wt new was handed a path of the default subdirectory layout
C7_Witness ==
    /\ Malformed(configEnv)
    /\ configEnv.keys.DirectoryFormat = DirectoryFormatSibling
    /\ \E p \in Procs :
         /\ proc[p].pc = "resolved"
         /\ proc[p].branch = <<"a", "/", "2">>
         /\ proc[p].path = <<"/","w","/",".","p","-","w","t","/","a","-","2">>

(***************************************************************************)
(* Properties of the match filter (SpecFilter)                             *)
(***************************************************************************)
FltDone == flt.pc = "done"

\* the same letter, whatever the case
SameLetter(c, d) ==
    \/ c = d
    \/ \E k \in 1..Len(UpperOrder) : {c, d} = {UpperOrder[k], LowerOrder[k]}

\* query occurs in text at offset k, case-insensitively
OccursAt(text, query, k) ==
    /\ k + Len(query) <= Len(text)
    /\ \A i \in 1..Len(query) : SameLetter(text[k + i], query[i])

RuleExact(text, query) == Len(text) = Len(query) /\ OccursAt(text, query, 0)
RulePrefix(text, query) == OccursAt(text, query, 0)
RuleSubstring(text, query) == \E k \in 0..Len(text) : OccursAt(text, query, k)

\* the score of the first rule that text satisfies, 0 if it satisfies none
FirstRuleScore(text, query) ==
    IF RuleExact(text, query) THEN 100
    ELSE IF RulePrefix(text, query) THEN 80
    ELSE IF RuleSubstring(text, query) THEN 50
    ELSE 0

ScoresOf(result) == { result[i].Score : i \in 1..Len(result) }

\* C11: for a non-empty query every entry of the result carries the score of
\* the first rule its candidate satisfies, in the order exact equality (100),
\* prefix (80), substring (50), compared without regard to case; it never
\* carries the score of a later rule when an earlier one applies.
C11_FirstRuleScore ==
    (FltDone /\ flt.query # <<>>) =>
        \A i \in 1..Len(flt.result) :
            /\ flt.result[i].Score = FirstRuleScore(flt.result[i].Text, flt.query)
            /\ flt.result[i].Score \in {100, 80, 50}

\* a call whose result holds all three scores, for a query in another case
\* than the candidates it matched
C11_Witness ==
    /\ FltDone
    /\ flt.query = <<"A">>
    /\ ScoresOf(flt.result) = {100, 80, 50}
    /\ \E i \in 1..Len(flt.result) :
          flt.result[i].Score = 100 /\ flt.result[i].Text = <<"a">>

\* C12: in every successful result the survivors are in input order (Index
\* strictly increasing, never re-sorted by score) and every entry refers
\* back to its own candidate: items[entry.Index] = entry.Text.
C12_InputOrderAndBackReference ==
    (FltDone /\ flt.err = NilError) =>
        /\ \A i, j \in 1..Len(flt.result) :
              i < j => flt.result[i].Index < flt.result[j].Index
        /\ \A i \in 1..Len(flt.result) :
              /\ flt.result[i].Index \in 0..(Len(flt.items) - 1)
              /\ flt.items[flt.result[i].Index + 1] = flt.result[i].Text

\* a successful result that left a candidate out and in which a later
\* survivor has the higher score
C12_Witness ==
    /\ FltDone /\ flt.err = NilError
    /\ Len(flt.result) >= 2
    /\ Len(flt.result) < Len(flt.items)
    /\ flt.result[1].Index > 0
    /\ flt.result[1].Score < flt.result[2].Score

\* C14: with an empty query FilterByQuery returns every candidate, in the
\* original order, each with its original index and score 0, and never fails.
C14_EmptyQueryReturnsAll ==
    (FltDone /\ flt.query = <<>>) =>
        /\ flt.err = NilError
        /\ Len(flt.result) = Len(flt.items)
        /\ \A i \in 1..Len(flt.items) :
              flt.result[i] = [Index |-> i - 1, Text |-> flt.items[i], Score |-> 0]

\* an empty query over several candidates, one of them the empty string
C14_Witness ==
    /\ FltDone /\ flt.query = <<>>
    /\ Len(flt.items) >= 2
    /\ flt.items[1] = <<>>
    /\ Len(flt.result) = Len(flt.items)

(***************************************************************************)
(* Properties of selection (SpecSelect)                                    *)
(***************************************************************************)
SelDone == sel.pc = "done"

\* a strategy (fzf or the numbered fallback) was called on sel.list
StrategyCalled == sel.pc \in {"fzf", "prompt", "done"} /\ sel.strategy # "none"

\* nothing printed, nothing read, no subprocess
NoIO == sel.stderr = <<>> /\ sel.reads = 0 /\ sel.subprocs = 0

\* the candidates that contain the query case-insensitively, by index
Matching(items, query) ==
    { i \in 1..Len(items) : RuleSubstring(items[i], query) }

\* C13: for a non-empty query FilterByQuery returns exactly the candidates
\* that contain the query case-insensitively; when none does it fails with
\* the no-matches error instead of returning an empty list, and wt go /
\* open / clean return NoMatchError carrying the query.
C13_ExactlyTheMatches ==
    (SelDone /\ sel.viaQuery) =>
        /\ sel.query # <<>>
        /\ (sel.ferr = NilError) <=> (Matching(sel.items, sel.query) # {})
        /\ sel.ferr = NilError =>
              /\ Len(sel.filtered) > 0
              /\ { sel.filtered[i].Index + 1 : i \in 1..Len(sel.filtered) }
                    = Matching(sel.items, sel.query)
              /\ Len(sel.filtered) = Cardinality(Matching(sel.items, sel.query))
        /\ sel.ferr # NilError =>
              /\ sel.ferr[1] = "no matches found for query: "
              /\ sel.filtered = <<>>
              /\ sel.err = <<"no matching worktree found: ">> \o sel.query
              /\ NoIO

\* wt open with a query in capitals that one of three worktrees matches in
\* small letters only and another does not match at all
C13_Witness ==
    /\ SelDone /\ sel.viaQuery /\ sel.entry = "runOpen"
    /\ sel.query = <<"A">>
    /\ Len(sel.items) = 3
    /\ Cardinality(Matching(sel.items, sel.query)) = 2
    /\ \E i \in 1..Len(sel.filtered) : sel.filtered[i].Text = <<"a", "\t", "/", "a">>

\* the lines that, typed at the numbered prompt, choose entry k
LinesChoosing(k) ==
    { Itoa(k) \o <<"\n">>, <<" ">> \o Itoa(k) \o <<" ", "\n">>,
      <<"+">> \o Itoa(k) \o <<"\n">>, <<"0">> \o Itoa(k) \o <<"\n">> }

\* the user chose the k-th entry of the list shown
UserChose(k) ==
    \/ /\ sel.strategy = "fzf" /\ sel.outcome.run = "nil"
       /\ sel.outcome.stdout = sel.list[k] \o <<"\n">>
    \/ /\ sel.strategy = "prompt" /\ sel.reads = 1 /\ ~sel.read.failed
       /\ sel.read.line \in LinesChoosing(k)

\* C15: with a query that exactly one item matches, selection returns that
\* item's original index without running fzf or the numbered prompt; with
\* several matches the selector is run over the matching items only and the
\* index returned is the original index of the item the user chose.
C15_QuerySelection ==
    (sel.pc \in {"fzf", "prompt", "done"} /\ sel.viaQuery /\ sel.ferr = NilError) =>
        /\ Cardinality(Matching(sel.items, sel.query)) = 1 =>
              /\ SelDone /\ sel.err = NilError
              /\ sel.idx + 1 \in Matching(sel.items, sel.query)
              /\ sel.strategy = "none" /\ NoIO
        /\ Cardinality(Matching(sel.items, sel.query)) > 1 =>
              /\ sel.strategy # "none"
              /\ Len(sel.list) = Cardinality(Matching(sel.items, sel.query))
              /\ \A k \in 1..Len(sel.list) :
                    \E i \in Matching(sel.items, sel.query) : sel.items[i] = sel.list[k]
              /\ (SelDone /\ sel.err = NilError) =>
                    /\ \E k \in 1..Len(sel.list) : UserChose(k)
                    /\ \A k \in 1..Len(sel.list) :
                          UserChose(k) => /\ sel.idx \in 0..(Len(sel.items) - 1)
                                          /\ sel.items[sel.idx + 1] = sel.list[k]

\* two of three items match, the user chose the second shown, and its
\* original index is not its place in the list shown
C15_Witness ==
    /\ SelDone /\ sel.viaQuery /\ sel.err = NilError
    /\ Len(sel.items) = 3 /\ Len(sel.list) = 2
    /\ UserChose(2)
    /\ sel.idx = 2 /\ sel.raw.idx = 1

\* C16: for a list of exactly one item the selector returns index 0 without
\* any I/O (nothing printed, nothing read, no subprocess), whether or not
\* fzf is preferred and available.
C16_SingleItemNoIO ==
    (StrategyCalled /\ Len(sel.list) = 1) =>
        /\ SelDone
        /\ sel.raw = Return(0, NilError)
        /\ NoIO

\* what was typed, trimmed
Typed == TrimSpace(sel.read.line)

\* an optional sign and then digits only
IsInteger(t) ==
    /\ Len(BodyOf(t)) > 0
    /\ \A i \in 1..Len(BodyOf(t)) : BodyOf(t)[i] \in DigitChars

\* t is an integer of value k (k >= 1)
HasValue(t, k) ==
    IsInteger(t) /\ SignOf(t) # "-" /\ Significant(BodyOf(t)) = Itoa(k)

InRange(t, n) == \E k \in 1..n : HasValue(t, k)

\* the value of t fits an int of 64 bits
FitsInt(t) ==
    DigitsAtMost(Significant(BodyOf(t)),
                 IF SignOf(t) = "-" THEN MinIntDigits ELSE MaxIntDigits)

\* the fallback read a line from a list of two or more items and returned
PromptAnswered ==
    SelDone /\ sel.strategy = "prompt" /\ sel.reads = 1 /\ ~sel.read.failed

IsCancelled(ret) == ret.idx = -1 /\ ret.err = <<"selection cancelled">>
IsInvalidInput(ret) == ret.idx = -1 /\ ret.err = <<"invalid input: ">> \o Typed
IsOutOfRange(ret) ==
    ret.idx = -1 /\ ret.err # NilError /\ ret.err[1] = "number out of range: "

\* C17 as stated: q, Q or empty gives Cancelled; non-numeric text gives the
\* invalid-input failure; an integer outside [1, len(items)] gives
\* OutOfRange; any other integer n gives n-1; every failure returns -1.
C17_PromptClassification ==
    PromptAnswered =>
        /\ Len(sel.list) >= 2
        /\ sel.raw.err # NilError => sel.raw.idx = -1
        /\ IF Typed \in {<<"q">>, <<"Q">>, <<>>} THEN IsCancelled(sel.raw)
           ELSE IF ~IsInteger(Typed) THEN IsInvalidInput(sel.raw)
           ELSE IF ~InRange(Typed, Len(sel.list)) THEN IsOutOfRange(sel.raw)
           ELSE /\ sel.raw.err = NilError
                /\ HasValue(Typed, sel.raw.idx + 1)

\* C17, amended: as stated, but an integer gives OutOfRange only when it
\* fits an int; digits whose value does not fit give the invalid-input
\* failure, like non-numeric text.
C17_PromptClassificationWithinInt ==
    (SelDone /\ sel.strategy = "prompt" /\ sel.reads = 1) =>
        /\ Len(sel.list) >= 2
        /\ sel.raw.err # NilError => sel.raw.idx = -1
        /\ ~sel.read.failed =>
            IF Typed \in {<<"q">>, <<"Q">>, <<>>} THEN IsCancelled(sel.raw)
            ELSE IF ~IsInteger(Typed) \/ ~FitsInt(Typed) THEN IsInvalidInput(sel.raw)
            ELSE IF ~InRange(Typed, Len(sel.list)) THEN IsOutOfRange(sel.raw)
            ELSE /\ sel.raw.err = NilError
                 /\ HasValue(Typed, sel.raw.idx + 1)

\* the digits of 2^63 were typed and refused as invalid input
C17_Witness ==
    /\ PromptAnswered
    /\ Typed = MinIntDigits
    /\ IsInvalidInput(sel.raw)

\* the picker ended with a failing exit status or could not be run
FzfFailed == SelDone /\ sel.strategy = "fzf" /\ sel.outcome.run \in {"exit", "other"}

\* the last n elements of s
Suffix(s, n) == SubSeq(s, Len(s) - n + 1, Len(s))

\* C18: SelectWithFzf reports exit status 130 as the 'selection cancelled'
\* outcome that the fallback reports for q, Q or empty input, and every
\* other failing exit as a different, generic failure that carries the
\* picker's stderr text; so cancellation is told apart from NoItems,
\* invalid input, out-of-range and tool failure in both strategies.
C18_CancelledDistinct ==
    /\ (FzfFailed /\ sel.outcome.run = "exit" /\ sel.outcome.code = 130) =>
          IsCancelled(sel.raw)
    /\ (PromptAnswered /\ Typed \in {<<"q">>, <<"Q">>, <<>>}) => IsCancelled(sel.raw)
    /\ (FzfFailed /\ ~(sel.outcome.run = "exit" /\ sel.outcome.code = 130)) =>
          /\ sel.raw.idx = -1
          /\ sel.raw.err[1] = "fzf failed: "
          /\ Suffix(sel.raw.err, Len(sel.outcome.stderr)) = sel.outcome.stderr
          /\ ~IsCancelled(sel.raw)
    /\ (SelDone /\ sel.strategy # "none" /\ sel.raw.err = <<"selection cancelled">>) =>
          \/ sel.strategy = "fzf" /\ sel.outcome.run = "exit" /\ sel.outcome.code = 130
          \/ PromptAnswered /\ Typed \in {<<"q">>, <<"Q">>, <<>>}

\* the picker exited with status 130 and text on stderr
C18_Witness ==
    /\ FzfFailed
    /\ sel.outcome.code = 130 /\ sel.outcome.stderr = <<"e">>
    /\ IsCancelled(sel.raw)

\* C19: when the picker exits successfully after the user chose one of the
\* list's items, SelectWithFzf returns an index i with items[i] equal to the
\* chosen item, whatever item of the list it is.
C19_ChosenLineMapsBack ==
    (SelDone /\ sel.strategy = "fzf" /\ sel.outcome.run = "nil") =>
        \A k \in 1..Len(sel.list) :
            sel.outcome.stdout = sel.list[k] \o <<"\n">> =>
                /\ sel.raw.err = NilError
                /\ sel.raw.idx \in 0..(Len(sel.list) - 1)
                /\ sel.list[sel.raw.idx + 1] = sel.list[k]

\* C20: with an empty item list both strategies return the NoItems error
\* at once, with index -1, before printing, reading or starting a
\* subprocess.
C20_NoItems ==
    (StrategyCalled /\ Len(sel.list) = 0) =>
        /\ SelDone
        /\ sel.raw = Return(-1, <<"no items to select from">>)
        /\ NoIO

\* fzf preferred and available, called on the empty list
C20_Witness ==
    /\ SelDone /\ sel.strategy = "fzf" /\ sel.entry = "selectWorktree"
    /\ sel.list = <<>>
    /\ sel.raw.idx = -1 /\ sel.raw.err # NilError

(***************************************************************************)
(* Properties of the configuration package (SpecConfig)                    *)
(***************************************************************************)
\* the last call was this one
Called(op) == conf.pc = "run" /\ conf.last.op = op

\* the three default settings, written out
TheDefaults ==
    [DirectoryFormat |-> "subdirectory", SubdirectoryPrefix |-> <<".">>,
     SubdirectorySuffix |-> <<"-", "w", "t">>]

\* the value of key k for a file: the one in the file, else the default
KeyOrDefault(file, k) ==
    IF k \in DOMAIN file.keys THEN file.keys[k] ELSE TheDefaults[k]

\* the settings are acceptable: a known format, a suffix empty or with '-'
Acceptable(format, suffix) ==
    /\ format \in {"subdirectory", "sibling"}
    /\ suffix = <<>> \/ suffix[1] = "-"

\* C21: Load returns the defaults when no file exists; for an existing file
\* the keys absent from it keep their defaults; Load fails, returning no
\* configuration, when directory_format is neither 'subdirectory' nor
\* 'sibling' or a non-empty suffix does not start with '-'.
C21_LoadDefaultsAndValidation ==
    Called("Load") =>
        LET file == conf.last.fileBefore
        IN  /\ ~file.exists =>
                  /\ conf.loaded = [cfg |-> TheDefaults, err |-> ""]
                  /\ conf.hasC /\ conf.c = TheDefaults
            /\ (file.exists /\ file.parses) =>
                  IF Acceptable(KeyOrDefault(file, "DirectoryFormat"),
                                KeyOrDefault(file, "SubdirectorySuffix"))
                  THEN /\ conf.loaded.err = ""
                       /\ conf.hasC
                       /\ \A k \in DOMAIN TheDefaults : conf.c[k] = KeyOrDefault(file, k)
                  ELSE /\ conf.loaded.err # ""
                       /\ ~conf.hasC
                       /\ conf.loaded.cfg = NilConfig

\* a file that sets the prefix and the suffix only was loaded: the format
\* is the default, the other two are the file's
C21_Witness ==
    /\ Called("Load")
    /\ conf.last.fileBefore.exists
    /\ DOMAIN conf.last.fileBefore.keys = {"SubdirectoryPrefix", "SubdirectorySuffix"}
    /\ conf.hasC
    /\ conf.c = [DirectoryFormat |-> "subdirectory", SubdirectoryPrefix |-> <<"_">>,
                 SubdirectorySuffix |-> <<"-", "x">>]

Setters == {"SetDirectoryFormat", "SetSubdirectoryPrefix", "SetSubdirectorySuffix"}

\* the setting a setter is about
FieldOf(op) ==
    IF op = "SetDirectoryFormat" THEN "DirectoryFormat"
    ELSE IF op = "SetSubdirectoryPrefix" THEN "SubdirectoryPrefix"
    ELSE "SubdirectorySuffix"

\* C22: a setter called on a configuration that passes Validate leaves a
\* configuration that passes Validate; a call that returns an error leaves
\* the three settings unchanged, a call that succeeds changes only its own
\* setting, to the value given.
C22_SettersKeepValid ==
    (conf.pc = "run" /\ conf.last.op \in Setters
        /\ Acceptable(conf.last.before.DirectoryFormat,
                      conf.last.before.SubdirectorySuffix)) =>
        /\ Acceptable(conf.c.DirectoryFormat, conf.c.SubdirectorySuffix)
        /\ Validate(conf.c) = ""
        /\ conf.last.err # "" => conf.c = conf.last.before
        /\ conf.last.err = "" =>
              /\ conf.c[FieldOf(conf.last.op)] = conf.last.arg
              /\ \A k \in DOMAIN conf.c \ {FieldOf(conf.last.op)} :
                    conf.c[k] = conf.last.before[k]

\* SetSubdirectorySuffix("wt") was refused on a valid configuration
C22_Witness ==
    /\ Called("SetSubdirectorySuffix")
    /\ conf.last.arg = <<"w", "t">>
    /\ conf.last.err # ""
    /\ Validate(conf.last.before) = ""
    /\ conf.c = conf.last.before

\* C23: Load returns exactly the settings of the most recent successful
\* Save if no Reset followed it, and the defaults otherwise (a path with no
\* file at the start, or a Reset since); Save of a configuration that fails
\* Validate returns an error and leaves the file as it was; Reset succeeds
\* when the file does not exist.
C23_SaveResetLoad ==
    /\ Called("Load") =>
          IF conf.saved # <<>> /\ ~conf.reset
          THEN conf.loaded = [cfg |-> conf.saved[1], err |-> ""]
          ELSE (conf.reset \/ conf.fresh) =>
                   conf.loaded = [cfg |-> TheDefaults, err |-> ""]
    /\ (Called("Save")
          /\ ~Acceptable(conf.last.before.DirectoryFormat,
                         conf.last.before.SubdirectorySuffix)) =>
          /\ conf.last.err # ""
          /\ conf.file = conf.last.fileBefore
    /\ (Called("Save") /\ conf.last.err = "") => conf.file.exists
    /\ (Called("Reset") /\ ~conf.last.fileBefore.exists) =>
          /\ conf.last.err = ""
          /\ ~conf.file.exists

\* a configuration with an empty prefix and an empty suffix was saved and
\* loaded back
C23_Witness ==
    /\ Called("Load")
    /\ conf.saved # <<>> /\ ~conf.reset
    /\ conf.loaded.cfg = [DirectoryFormat |-> "sibling", SubdirectoryPrefix |-> <<>>,
                          SubdirectorySuffix |-> <<>>]

(***************************************************************************)
(* Properties of wt clean (SpecClean)                                      *)
(***************************************************************************)
\* wt clean has listed the worktrees and there is at least one
CleanListed == cln.pc \notin {"off", "start"} /\ Len(cln.listed) > 0

\* the line that shows a worktree in the candidate list
DisplayedAs(wt) ==
    (IF wt.IsDetached
     THEN <<"(","d","e","t","a","c","h","e","d",":"," ">>
          \o SubSeq(wt.HEAD, 1, IF Len(wt.HEAD) > 7 THEN 7 ELSE Len(wt.HEAD)) \o <<")">>
     ELSE wt.Branch) \o <<"\t">> \o wt.Path

\* the calls of git worktree remove, and of git branch -d / -D
RemoveCalls == {k \in 1..Len(cln.calls) : cln.calls[k].cmd = "worktree remove"}
DeleteCalls == {k \in 1..Len(cln.calls) : cln.calls[k].cmd = "branch delete"}

\* C24: wt clean never hands the main worktree (the first one git lists)
\* to the removal step, whatever the query, the flags and the selection:
\* the main worktree is not among the candidates, the selected index
\* addresses the worktree of the item displayed and chosen, and with the
\* main worktree alone the command fails with NoRemovableWorktreesError and
\* calls nothing.
C24_MainNeverRemoved ==
    CleanListed =>
        /\ \A i \in 1..Len(cln.validWorktrees) :
               cln.validWorktrees[i].Path # cln.listed[1].Path
        /\ \A k \in RemoveCalls : cln.calls[k].target # cln.listed[1].Path
        /\ cln.selected # NoCurrent =>
               /\ cln.selectedIndex \in 0..(Len(cln.items) - 1)
               /\ cln.items[cln.selectedIndex + 1] = DisplayedAs(cln.selected[1])
               /\ cln.sel.strategy # "none" =>
                      cln.sel.list[cln.sel.raw.idx + 1] = DisplayedAs(cln.selected[1])
               /\ cln.sel.strategy = "fzf" =>
                      cln.sel.outcome.stdout = DisplayedAs(cln.selected[1]) \o <<"\n">>
        /\ (Len(cln.listed) = 1 /\ cln.repo.err = NilError) =>
               /\ cln.pc = "done"
               /\ cln.err = <<"no removable worktrees found (main worktree cannot be removed)">>
               /\ cln.calls = <<>>

\* the answers that say yes: y or yes in any case, spaces around allowed
SaysYes(answer) ==
    /\ answer # NoRead
    /\ ~answer[1].failed
    /\ answer[1].line \in { <<"y","\n">>, <<" ","Y","e","s"," ","\n">> }

\* the worktrees other than the selected one that git lists on its branch
OthersOnBranch ==
    {i \in 1..Len(cln.listed) :
        /\ cln.listed[i].Branch = cln.selected[1].Branch
        /\ cln.listed[i].Path # cln.selected[1].Path}

\* C26, all but its last clause: removal only after a yes or with --yes;
\* an answer that is not a yes, or cannot be read, gives
\* WorktreeRemovalCancelledError with nothing removed; a branch is deleted
\* only after its worktree was removed successfully, without --keep-branch,
\* for a worktree with a branch no other worktree uses, after a yes or
\* with --yes.
CleanOrder ==
    /\ RemoveCalls # {} => (cln.yes \/ SaysYes(cln.removalAnswer))
    /\ (cln.removalAnswer # NoRead /\ ~SaysYes(cln.removalAnswer)) =>
           /\ cln.pc = "done"
           /\ cln.err = <<"worktree removal cancelled">>
           /\ cln.calls = <<>>
    /\ \A k \in DeleteCalls :
           /\ \E j \in RemoveCalls :
                  /\ j < k /\ cln.calls[j].ok
                  /\ cln.calls[j].target = cln.selected[1].Path
           /\ ~cln.keepBranch
           /\ cln.selected[1].Branch # <<>>
           /\ cln.calls[k].target = cln.selected[1].Branch
           /\ OthersOnBranch = {}
           /\ cln.yes \/ SaysYes(cln.branchAnswer)

\* C26 as stated: CleanOrder, and git branch -D is used only for a branch
\* that is not merged.
C26_ConfirmedRemovalAndDeletion ==
    cln.pc \notin {"off", "start"} =>
        /\ CleanOrder
        /\ \A k \in DeleteCalls :
               cln.calls[k].force => cln.branchMerged = <<FALSE>>

\* C26 with the last clause as the code has it: git branch -D is used only
\* for a branch that gitx.IsBranchMerged did not report as merged, which is
\* a branch that is not merged or one for which the check failed.
C26_ForceUnlessReportedMerged ==
    cln.pc \notin {"off", "start"} =>
        /\ CleanOrder
        /\ \A k \in DeleteCalls :
               /\ cln.calls[k].force =>
                      (cln.mergedFailed \/ cln.branchMerged = <<FALSE>>)
               /\ ~cln.calls[k].force =>
                      (~cln.mergedFailed /\ cln.branchMerged = <<TRUE>>)

\* without --yes: the user answered yes three times and the unmerged branch
\* of the removed worktree was deleted with -D
C26_Witness ==
    /\ cln.pc = "done" /\ cln.err = NilError /\ ~cln.yes
    /\ SaysYes(cln.removalAnswer) /\ SaysYes(cln.branchAnswer)
    /\ SaysYes(cln.forceAnswer)
    /\ Len(cln.calls) = 3
    /\ cln.calls[1].cmd = "worktree remove" /\ cln.calls[1].ok
    /\ cln.calls[2].cmd = "branch delete" /\ cln.calls[2].force /\ cln.calls[2].ok
    /\ cln.branchMerged = <<FALSE>> /\ ~cln.mergedFailed

(***************************************************************************)
(* Properties of wt pr (SpecPr)                                            *)
(***************************************************************************)
\* the worktree blocks of git's list that have the local branch checked out
CheckedOutIn ==
    {i \in 1..Len(pr.blocks) :
        \E k \in 1..Len(pr.blocks[i]) :
            pr.blocks[i][k] = <<"branch", <<"refs/heads/">> \o pr.localBranch>>}

\* the calls of git of one kind
PrCalls(cmd) == {k \in 1..Len(pr.calls) : pr.calls[k].cmd = cmd}

\* the worktree list was read and shows the local branch checked out
PrBranchInUse == pr.pc # "off" /\ pr.searched /\ CheckedOutIn # {}

\* C25: when the local branch is already checked out in a worktree, wt pr
\* fetches nothing and creates no worktree; without --cd it reports the
\* existing worktree and returns nil; with --cd it prints the existing
\* worktree's path when --force is given or the user says yes, and fails
\* with "operation cancelled" otherwise.
C25_ExistingWorktree ==
    PrBranchInUse =>
        /\ pr.existingWT # NoCurrent
        /\ \E i \in CheckedOutIn : pr.existingWT[1].Path = pr.blocks[i][1][2]
        /\ pr.pc \in {"navigate", "done"}
        /\ pr.calls = <<>> /\ fs = RepoEntries
        /\ ~pr.cd =>
               /\ pr.pc = "done" /\ pr.err = NilError
               /\ \E k \in 1..Len(pr.out) :
                      pr.out[k] = <<"Path: ">> \o pr.existingWT[1].Path
        /\ (pr.cd /\ pr.pc = "done") =>
               IF pr.force \/ SaysYes(pr.navigateAnswer)
               THEN /\ pr.err = NilError
                    /\ pr.out # <<>>
                    /\ pr.out[Len(pr.out)] = pr.existingWT[1].Path
               ELSE /\ pr.err = <<"operation cancelled">>
                    /\ \A k \in 1..Len(pr.out) : pr.out[k] # pr.existingWT[1].Path
        /\ (pr.cd /\ pr.pc = "navigate") => (~pr.force /\ pr.navigateAnswer = NoRead)

\* --cd without --force, the branch of the pull request is checked out in
\* /a, and the user answers yes
C25_Witness ==
    /\ PrBranchInUse /\ pr.pc = "done" /\ pr.cd /\ ~pr.force
    /\ SaysYes(pr.navigateAnswer)
    /\ pr.err = NilError
    /\ pr.out[Len(pr.out)] = <<"/", "a">>

\* a temporary remote was added by this run
PrAddedTemp ==
    /\ pr.pc # "off"
    /\ \E k \in PrCalls("remote add") : pr.calls[k].ok

\* no temporary remote is added when --remote is given, when the pull
\* request is not from a fork, or when a remote named after the head
\* owner exists
PrNoNeedlessRemote ==
    (pr.pc \in {"fetch", "add", "done"} /\ PrCalls("remote add") # {}) =>
        /\ pr.remoteFlag = <<>>
        /\ pr.prInfo.IsCrossRepository
        /\ pr.prInfo.HeadOwner \notin (pr.remotes \ {pr.added})
        /\ \A k \in PrCalls("remote add") :
               pr.calls[k].target = <<"wt-pr-">> \o pr.prNumber

\* C28 as stated: when wt pr has added the temporary remote wt-pr-<n> and
\* returned (after the fetch failed, the path could not be generated, the
\* worktree could not be created, or with success), the remote is gone;
\* and no temporary remote is added needlessly.
C28_TempRemoteRemoved ==
    /\ (PrAddedTemp /\ pr.pc = "done") =>
           (<<"wt-pr-">> \o pr.prNumber) \notin pr.remotes
    /\ PrNoNeedlessRemote

\* C28 as the code has it: on each of these returns git remote remove
\* wt-pr-<n> is the last call made, and the remote is gone unless that call
\* failed (its error is ignored).
C28_TempRemoteRemovalIssued ==
    /\ (PrAddedTemp /\ pr.pc = "done") =>
           LET last == pr.calls[Len(pr.calls)]
           IN  /\ last.cmd = "remote remove"
               /\ last.target = <<"wt-pr-">> \o pr.prNumber
               /\ PrCalls("remote remove") = {Len(pr.calls)}
               /\ last.ok <=> (<<"wt-pr-">> \o pr.prNumber) \notin pr.remotes
    /\ (pr.pc # "off" /\ ~PrAddedTemp) => PrCalls("remote remove") = {}
    /\ PrNoNeedlessRemote

\* the temporary remote was added and the worktree could not be created:
\* the remote was removed before the return
C28_Witness ==
    /\ PrAddedTemp /\ pr.pc = "done" /\ pr.failed = "add"
    /\ pr.err # NilError
    /\ pr.calls[Len(pr.calls)] = GitCall("remote remove", <<"wt-pr-", "1", "2">>, FALSE, TRUE)
    /\ pr.remotes = {<<"origin">>}

(***************************************************************************)
(* Properties of Manager.CreateSession (SpecTmux)                          *)
(***************************************************************************)
\* the positions in the call list of the calls of one tmux command
TmxCalls(cmd) == {k \in 1..Len(tmx.calls) : tmx.calls[k].cmd = cmd}

\* the commands issued are, in this order, new-session, h times
\* has-session, s times split-window, l times select-layout and y times
\* set-window-option
TmxInOrder(h, s, l, y) ==
    [k \in 1..Len(tmx.calls) |-> tmx.calls[k].cmd]
        = <<"new-session">> \o [k \in 1..h |-> "has-session"]
            \o [k \in 1..s |-> "split-window"] \o [k \in 1..l |-> "select-layout"]
            \o [k \in 1..y |-> "set-window-option"]

\* the order of the commands, given how many select-layout calls a
\* successful CreateSession makes
TmxOrder(layoutCalls) ==
    LET n == Len(tmx.Panes)
        h == Cardinality(TmxCalls("has-session"))
        s == Cardinality(TmxCalls("split-window"))
        l == Cardinality(TmxCalls("select-layout"))
        y == Cardinality(TmxCalls("set-window-option"))
    IN  /\ n = 0 => (tmx.calls = <<>> /\ tmx.err # NilError)
        /\ tmx.calls # <<>> =>
            /\ TmxInOrder(h, s, l, y)
            /\ tmx.calls[1].arg = tmx.Panes[1]
            \* the polls: at most 10, all but the last one failed
            /\ h <= 10
            /\ \A k \in TmxCalls("has-session") : k < 1 + h => ~tmx.calls[k].ok
            /\ (h = 10 /\ ~tmx.calls[11].ok) =>
                   (tmx.pc = "done" /\ tmx.err # NilError /\ Len(tmx.calls) = 11)
            \* what follows the polls follows a successful poll
            /\ (s + l + y > 0) => (h >= 1 /\ tmx.calls[1 + h].ok)
            \* one split-window per remaining pane, in pane order
            /\ s <= n - 1
            /\ \A k \in TmxCalls("split-window") : tmx.calls[k].arg = tmx.Panes[k - h]
            /\ (l + y > 0) => s = n - 1
            /\ l <= layoutCalls
            /\ y > 0 => (l = layoutCalls /\ y = 1 /\ tmx.SyncPanes)
            \* a failure of any step but select-layout (and a poll before
            \* the tenth) ends the call with an error
            /\ \A k \in 1..Len(tmx.calls) :
                   (~tmx.calls[k].ok /\ tmx.calls[k].cmd \notin {"select-layout", "has-session"})
                       => (k = Len(tmx.calls) /\ tmx.pc = "done" /\ tmx.err # NilError)
            /\ \A k \in TmxCalls("select-layout") :
                   (~tmx.calls[k].ok /\ tmx.pc = "done" /\ k = Len(tmx.calls))
                       => tmx.err = NilError
            \* a successful CreateSession has issued all of them
            /\ (tmx.pc = "done" /\ tmx.err = NilError) =>
                   /\ h >= 1 /\ s = n - 1 /\ l = layoutCalls
                   /\ y = (IF tmx.SyncPanes THEN 1 ELSE 0)
                   /\ \A k \in 1..Len(tmx.calls) :
                          tmx.calls[k].ok \/ tmx.calls[k].cmd \in {"select-layout", "has-session"}

\* C27 as stated: no command without panes; else new-session for the first
\* pane, 1 to 10 has-session polls ending at the first success (an error
\* when none succeeds), one split-window per remaining pane in pane order,
\* then select-layout, then set-window-option when sync is requested; a
\* failure of any step but select-layout ends the call with an error and
\* nothing is issued after it.
C27_CommandOrder ==
    tmx.pc \notin {"off", "start"} => TmxOrder(1)

\* C27 as the code has it: select-layout is issued when the layout is not
\* empty, and skipped when it is.
C27_CommandOrderLayoutIfSet ==
    tmx.pc \notin {"off", "start"} => TmxOrder(IF tmx.Layout = "" THEN 0 ELSE 1)

\* three panes, layout and sync: the third poll succeeds, select-layout
\* fails, and CreateSession returns nil after set-window-option
C27_Witness ==
    /\ tmx.pc = "done" /\ tmx.err = NilError
    /\ Len(tmx.Panes) = 3 /\ tmx.SyncPanes
    /\ Len(tmx.calls) = 8
    /\ ~tmx.calls[2].ok /\ ~tmx.calls[3].ok /\ tmx.calls[4].ok
    /\ tmx.calls[5] = TmuxCall("split-window", <<"/","w","2">>, TRUE)
    /\ tmx.calls[6] = TmuxCall("split-window", <<"/","w","3">>, TRUE)
    /\ tmx.calls[7] = TmuxCall("select-layout", "tiled", FALSE)
    /\ tmx.calls[8].cmd = "set-window-option"

(***************************************************************************)
(* Properties of the selected index (SpecSelect)                           *)
(***************************************************************************)
\* the number of worktrees the selection is made from
SelCount == IF sel.entry = "selectWorktree" THEN Len(sel.items) ELSE Len(sel.worktrees)

\* wt go or wt open has listed at least one worktree and made its choice
\* of a selection path
SelChoosing ==
    /\ sel.pc \in {"fzf", "prompt", "done"}
    /\ sel.entry \in {"runGo", "runOpen"}
    /\ Len(sel.worktrees) > 0

\* C29: an index returned without error is a position of the worktree
\* list, whichever way it was selected; --index goes before a query and a
\* query before interactive selection; an --index at or beyond the length
\* of the list gives IndexOutOfRangeError and no index.
C29_ValidIndex ==
    /\ (SelDone /\ sel.err = NilError) => sel.idx \in 0..(SelCount - 1)
    /\ (SelChoosing /\ sel.index >= 0) =>
           /\ SelDone /\ sel.strategy = "none" /\ ~sel.viaQuery /\ NoIO
           /\ sel.index < Len(sel.worktrees) =>
                  (sel.err = NilError /\ sel.idx = sel.index)
           /\ sel.index >= Len(sel.worktrees) =>
                  /\ sel.err = <<"index out of range: ">> \o Itoa(sel.index)
                                 \o <<" (max: ">> \o Itoa(Len(sel.worktrees) - 1) \o <<")">>
                  /\ sel.idx # sel.index
    /\ (SelChoosing /\ sel.index < 0 /\ sel.query # <<>>) =>
           /\ sel.viaQuery
           /\ sel.strategy # "none" =>
                  \A k \in 1..Len(sel.list) :
                      \E i \in Matching(sel.items, sel.query) : sel.items[i] = sel.list[k]
           /\ (SelDone /\ sel.err = NilError) =>
                  sel.idx + 1 \in Matching(sel.items, sel.query)
    /\ (SelChoosing /\ sel.index < 0 /\ sel.query = <<>>) =>
           (~sel.viaQuery /\ sel.strategy # "none" /\ sel.list = sel.items)

\* wt go with --index 2, a query that matches, and two worktrees
C29_Witness ==
    /\ SelDone /\ sel.entry = "runGo" /\ sel.index = 2 /\ Len(sel.worktrees) = 2
    /\ Matching(sel.items, sel.query) # {} /\ sel.query # <<>>
    /\ sel.err = <<"index out of range: ", "2", " (max: ", "1", ")">>

(***************************************************************************)
(* wt new: the path of an accepted branch name (SpecNew)                   *)
(***************************************************************************)
\* the run has a path for gitx.Add
NewNamed == sanPc \in {"named", "added"}

\* the path lies below the directory dir
ProperChildOf(path, dir) ==
    path # dir /\ HasPrefix(path, dir \o <<"/">>)

\* the path is the base directory's entry "<project>-" plus a non-empty rest
HasSiblingTail(path) ==
    LET stem == JoinPath(<<BaseDir, SprintfStr(RepoName, <<>>)>>)
    IN  HasPrefix(path, stem) /\ Len(path) > Len(stem)

\* C30: for every branch name that validateBranchName accepts the sanitized
\* label is non-empty, and the path handed to gitx.Add is a proper child of
\* the container directory in subdirectory mode and has a non-empty part
\* after "<project>-" in sibling mode
C30_AcceptedNameHasLabel ==
    NewNamed =>
        /\ sanOut # <<>>
        /\ IF resIn.cfg.DirectoryFormat = DirectoryFormatSubdirectory
           THEN ProperChildOf(resOut.path, ContainerDir(resIn.cfg))
           ELSE HasSiblingTail(resOut.path)

\* the same for the accepted names that hold a letter
C30_LetteredNameHasLabel ==
    (NewNamed /\ \E i \in 1..Len(sanIn) : sanIn[i] = "a") =>
        /\ sanOut # <<>>
        /\ IF resIn.cfg.DirectoryFormat = DirectoryFormatSubdirectory
           THEN ProperChildOf(resOut.path, ContainerDir(resIn.cfg))
           ELSE HasSiblingTail(resOut.path)

\* an accepted name whose label is empty: the container itself is created
C30_ContainerAdded ==
    /\ sanPc = "added" /\ sanOut = <<>>
    /\ resIn.cfg.DirectoryFormat = DirectoryFormatSubdirectory
    /\ resOut.path = ContainerDir(resIn.cfg)

====
